---- MODULE Spec2Model ----
(***************************************************************************)
(* The curation pipeline of morning-digest: Collect -> Dedup -> Group ->   *)
(* Rank -> materialize, as run by Orchestrator.generate, together with the *)
(* retry wrappers of LLMService that the paid tier calls.  Around it: the   *)
(* generate_user_digest task that commits the Digest (SpecRuns: the tasks  *)
(* of a user, one after another and overlapping, with feed ingestion and   *)
(* the routes that change sources and interactions; SpecUsers: beside the  *)
(* task of another user), and the requests of AuthService (SpecAuth).      *)
(*                                                                         *)
(* Conventions.  Python indices are kept 0-based in the data (oracle       *)
(* indices, primary_index, sort_order, merged_indices); TLA+ sequences are *)
(* 1-based, so a Python s[k] is At(s, k).  A text is the sequence of its   *)
(* lowercase alphabetic runs; None and "" content are both the empty text, *)
(* as every stage reads content through `content_text or ""`.  A missing   *)
(* timestamp is NULL; real timestamps are positive.                        *)
(***************************************************************************)
EXTENDS Integers, Sequences, FiniteSets, TLC

\* ---------------------------------------------------------------- bounds
MaxArticles == 3
NumFingerprints == 3
MaxOracleGroups == 2
MaxInteractions == 2
MaxRuns == 2
MaxRequests == 3
MaxChanges == 1
MaxStored == 2
MaxOpen == 2
MaxTicks == 1

\* ------------------------------------------------------ program constants
max_retries == 2
DayLength == 10
DEDUP_BATCH_SIZE == 50
GROUP_BATCH_SIZE == 20
KEYWORDS_TOP == 10
NULL == 0

_STOP_WORDS ==
    { "a", "an", "the", "is", "are", "was", "were", "be", "been", "being",
      "have", "has", "had", "do", "does", "did", "will", "would", "shall",
      "should", "may", "might", "can", "could", "of", "in", "to", "for", "on",
      "with", "at", "by", "from", "as", "into", "through", "during", "before",
      "after", "above", "below", "between", "out", "off", "over", "under",
      "again", "further", "then", "once", "here", "there", "when", "where",
      "why", "how", "all", "each", "every", "both", "few", "more", "most",
      "other", "some", "such", "no", "nor", "not", "only", "own", "same",
      "so", "than", "too", "very", "and", "but", "if", "or", "because",
      "until", "while", "about", "against" }

\* ------------------------------------------------------- generic helpers
At(s, k) == s[k + 1]

Range(s) == { s[i] : i \in 1..Len(s) }

\* Python's s[k]: a negative k counts from the end; anything else outside
\* 0..len-1 raises IndexError.
PyIndexOk(k, n) == k >= 0 - n /\ k < n
PyIndex(k, n) == IF k < 0 THEN k + n ELSE k

Min(a, b) == IF a < b THEN a ELSE b

\* len(" ".join(words)): the character length of a text.
RECURSIVE StrLen(_)
StrLen(text) ==
    IF text = <<>> THEN 0
    ELSE IF Len(text) = 1 THEN Len(text[1])
    ELSE Len(Head(text)) + 1 + StrLen(Tail(text))

\* sorted(seq, key=..., reverse=True) is stable: elements with equal keys
\* keep their input order.  keys[i] is the key of seq[i]; element j comes
\* before element i when its key is larger, or equal and j was earlier in
\* the input.  The result is the permutation of 1..n in sorted order.
sorts_before_unstable(keys, j, i) ==
    keys[j] > keys[i] \/ (keys[j] = keys[i] /\ j > i)

sorts_before(keys, j, i) ==
    keys[j] > keys[i] \/ (keys[j] = keys[i] /\ j < i)

SortDescPerm(keys, n) ==
    LET pos == [ i \in 1..n |->
                   1 + Cardinality({ j \in 1..n : sorts_before(keys, j, i) }) ]
    IN  [ p \in 1..n |-> CHOOSE i \in 1..n : pos[i] = p ]

sorted_reverse(seq, keys) ==
    LET p == SortDescPerm(keys, Len(seq))
    IN  [ i \in 1..Len(seq) |-> seq[p[i]] ]

\* ------------------------------------------------------------- Article
Article(id, source_id, title, content_text, published_at, created_at, fingerprint) ==
    [ id |-> id, source_id |-> source_id, title |-> title,
      content_text |-> content_text, published_at |-> published_at,
      created_at |-> created_at, fingerprint |-> fingerprint ]

\* ------------------------------------------------- DedupStage, Phase 1
DedupGroup(primary, duplicates) ==
    [ primary |-> primary, duplicates |-> duplicates ]

\* The keys of by_fingerprint in dict (first-insertion) order.
by_fingerprint_keys(arts) ==
    LET firsts == SelectSeq([ i \in 1..Len(arts) |-> i ],
                      LAMBDA i : \A j \in 1..(i - 1) :
                                    arts[j].fingerprint # arts[i].fingerprint)
    IN  [ k \in 1..Len(firsts) |-> arts[firsts[k]].fingerprint ]

_fingerprint_dedup(arts) ==
    LET fps == by_fingerprint_keys(arts)
    IN  [ k \in 1..Len(fps) |->
            LET fp_articles == SelectSeq(arts, LAMBDA a : a.fingerprint = fps[k])
                sorted_arts ==
                    sorted_reverse(fp_articles,
                        [ i \in 1..Len(fp_articles) |->
                            StrLen(fp_articles[i].content_text) ])
            IN  DedupGroup(sorted_arts[1], Tail(sorted_arts)) ]

Primaries(gs) == [ i \in 1..Len(gs) |-> gs[i].primary ]

\* ------------------------------------------------- DedupStage, Phase 2
\* One merge `for idx in global_indices[1:]` step.  st.groups[i] is the
\* DedupGroup object of primaries[i-1]; appending to the lead's duplicates
\* mutates that object, and the extend reads the other group's list after
\* the append (so a group merged into itself doubles its list).
MergeOneNoCarry(st, lead_idx, idx) ==
    LET n == Len(st.groups)
    IN  IF st.err THEN st
        ELSE IF ~PyIndexOk(idx, n) THEN [st EXCEPT !.err = TRUE]
        ELSE
          LET lead == PyIndex(lead_idx, n) + 1
              other == PyIndex(idx, n) + 1
              g1 == [st.groups EXCEPT ![lead].duplicates =
                        Append(@, st.groups[other].primary)]
          IN  [st EXCEPT !.groups = g1, !.merged = @ \cup {idx}]

MergeOne(st, lead_idx, idx) ==
    LET n == Len(st.groups)
    IN  IF st.err THEN st
        ELSE IF ~PyIndexOk(idx, n) THEN [st EXCEPT !.err = TRUE]
        ELSE
          LET lead == PyIndex(lead_idx, n) + 1
              other == PyIndex(idx, n) + 1
              g1 == [st.groups EXCEPT ![lead].duplicates =
                        Append(@, st.groups[other].primary)]
              g2 == [g1 EXCEPT ![lead].duplicates = @ \o g1[other].duplicates]
          IN  [st EXCEPT !.groups = g2, !.merged = @ \cup {idx}]

RECURSIVE MergeRest(_, _, _)
MergeRest(st, lead_idx, rest) ==
    IF rest = <<>> THEN st
    ELSE MergeRest(MergeOne(st, lead_idx, Head(rest)), lead_idx, Tail(rest))

\* The body of `for sem_group in result.groups` for one group.
MergeGroup(st, sem_group, start) ==
    LET global_indices == [ i \in 1..Len(sem_group) |-> start + sem_group[i] ]
    IN  IF st.err THEN st
        ELSE IF global_indices = <<>> THEN [st EXCEPT !.err = TRUE]
        ELSE IF ~PyIndexOk(global_indices[1], Len(st.groups))
             THEN [st EXCEPT !.err = TRUE]
        ELSE MergeRest(st, global_indices[1], Tail(global_indices))

RECURSIVE MergeGroups(_, _, _)
MergeGroups(st, sem_groups, start) ==
    IF sem_groups = <<>> THEN st
    ELSE MergeGroups(MergeGroup(st, Head(sem_groups), start),
                     Tail(sem_groups), start)

\* `for i, primary in enumerate(primaries): if i not in merged_indices`.
final_groups(gs, merged) ==
    LET kept == SelectSeq([ i \in 1..Len(gs) |-> i ],
                    LAMBDA i : (i - 1) \notin merged)
    IN  [ k \in 1..Len(kept) |-> gs[kept[k]] ]

\* LLMService.find_semantic_duplicates: the parse of one response.
dedup_parse(data_groups) == SelectSeq(data_groups, LAMBDA g : Len(g) >= 2)

\* ------------------------------------------- GroupStage, statistical
NoSummary == "None"

\* The vocabulary of the modelled texts in alphabetical order, which is the
\* order sorted() gives a set of lowercase words.
Vocabulary == <<"ai", "launch", "mars", "orbit", "rocket", "the">>

WordRank(w) == CHOOSE r \in 1..Len(Vocabulary) : Vocabulary[r] = w

_tokenize(text) ==
    SelectSeq(text, LAMBDA w : w \notin _STOP_WORDS /\ Len(w) > 2)

\* f"{a.title or ''} {a.content_text or ''}" as a text.
doc_text(a) == a.title \o a.content_text

\* The top-10 cut of the tf*idf ranking keeps every term of a document that
\* has at most ten distinct terms, whatever the scores are.  Documents with
\* more distinct terms are outside the modelled domain.
doc_keywords(tokens) ==
    IF Cardinality(Range(tokens)) <= KEYWORDS_TOP THEN Range(tokens)
    ELSE CHOOSE top \in {} : TRUE

Keywords(arts) == [ i \in 1..Len(arts) |-> doc_keywords(_tokenize(doc_text(arts[i]))) ]

\* sorted(words)[:3]
RECURSIVE SortedWords(_)
SortedWords(ws) ==
    IF ws = {} THEN <<>>
    ELSE LET w == CHOOSE x \in ws : \A y \in ws : WordRank(x) <= WordRank(y)
         IN  <<w>> \o SortedWords(ws \ {w})

\* str.title() on a lowercase word: its first letter in upper case.
Titled == <<"Ai", "Launch", "Mars", "Orbit", "Rocket", "The">>

title(w) == Titled[WordRank(w)]

\* ", ".join(sorted(words)[:3]).title() or "General", as the text of its
\* words.
label_of(ws) ==
    LET top == SubSeq(SortedWords(ws), 1, Min(3, Cardinality(ws)))
    IN  IF top = <<>> THEN <<"General">>
        ELSE [ i \in 1..Len(top) |-> title(top[i]) ]

\* shared = set(keywords[cluster[0]]) narrowed by `shared &=` with the
\* keywords of every other member.
SharedAll(kw, cluster) ==
    { w \in kw[cluster[1]] : \A c \in 1..Len(cluster) : w \in kw[cluster[c]] }

TopicGroup(topic_label, arts, primary_index, group_summary, article_summaries) ==
    [ topic_label |-> topic_label, articles |-> arts,
      primary_index |-> primary_index, group_summary |-> group_summary,
      article_summaries |-> article_summaries ]

EmptyDict == [ k \in {} |-> NoSummary ]

\* The members that seed i (1-based) pulls in: every later document that is
\* still unassigned and shares at least two keywords with the seed.
cluster_of_transitive(kw, i, assigned) ==
    <<i>> \o SelectSeq([ j \in 1..(Len(kw) - i) |-> i + j ],
                 LAMBDA j : j \notin assigned
                            /\ \E m \in i..(j - 1) :
                                 m \notin assigned
                                 /\ Cardinality(kw[m] \cap kw[j]) >= 2)

cluster_of(kw, i, assigned) ==
    <<i>> \o SelectSeq([ j \in 1..(Len(kw) - i) |-> i + j ],
                 LAMBDA j : j \notin assigned
                            /\ Cardinality(kw[i] \cap kw[j]) >= 2)

greedy_step_summarised(arts, kw, i, st) ==
    IF i \in st.assigned THEN st
    ELSE
      LET cluster == cluster_of(kw, i, st.assigned)
          shared == SharedAll(kw, cluster)
          label == IF Len(cluster) > 1
                   THEN label_of(IF shared = {} THEN kw[cluster[1]] ELSE shared)
                   ELSE label_of(kw[i])
          tg == TopicGroup(label,
                           [ c \in 1..Len(cluster) |-> arts[cluster[c]] ],
                           0, "G", EmptyDict)
      IN  [ groups |-> Append(st.groups, tg),
            assigned |-> st.assigned \cup Range(cluster) ]

\* One turn of `for i, article in enumerate(articles)`; st carries the
\* groups built so far and the assigned set.
greedy_step(arts, kw, i, st) ==
    IF i \in st.assigned THEN st
    ELSE
      LET cluster == cluster_of(kw, i, st.assigned)
          shared == SharedAll(kw, cluster)
          label == IF Len(cluster) > 1
                   THEN label_of(IF shared = {} THEN kw[cluster[1]] ELSE shared)
                   ELSE label_of(kw[i])
          tg == TopicGroup(label,
                           [ c \in 1..Len(cluster) |-> arts[cluster[c]] ],
                           0, NoSummary, EmptyDict)
      IN  [ groups |-> Append(st.groups, tg),
            assigned |-> st.assigned \cup Range(cluster) ]

\* The turns lo..hi of the loop in order, split in halves.  Once every
\* article is assigned the turns that remain all `continue`.
RECURSIVE greedy(_, _, _, _, _)
greedy(arts, kw, lo, hi, st) ==
    IF lo > hi \/ st.assigned = 1..Len(arts) THEN st
    ELSE IF lo = hi THEN greedy_step(arts, kw, lo, st)
    ELSE LET mid == (lo + hi) \div 2
             left == greedy(arts, kw, lo, mid, st)
         IN  greedy(arts, kw, mid + 1, hi, left)

_tfidf_group(arts) ==
    IF arts = <<>> THEN <<>>
    ELSE greedy(arts, Keywords(arts), 1, Len(arts),
                [ groups |-> <<>>, assigned |-> {} ]).groups

\* --------------------------------------- GroupStage, externally assisted
\* list.index(x) for an x that is in the list (0-based).
IndexOf(s, x) == (CHOOSE i \in 1..Len(s) : s[i] = x /\ \A j \in 1..(i - 1) : s[j] # x) - 1

\* The dict comprehension that re-keys article_summaries: items is the
\* oracle's dict as its (key, value) pairs in order; a later pair that maps
\* to the same new key replaces the earlier one.
RECURSIVE rekey(_, _, _)
rekey(items, indices, acc) ==
    IF items = <<>> THEN acc
    ELSE LET k == Head(items)[1]
             nk == IF k \in Range(indices) THEN IndexOf(indices, k) ELSE k
         IN  rekey(Tail(items), indices,
                   [ x \in (DOMAIN acc) \cup {nk} |->
                       IF x = nk THEN Head(items)[2] ELSE acc[x] ])

\* One GroupResult g of a batch turned into a TopicGroup; err when
\* batch[i] raises IndexError.
group_from_result(batch, g) ==
    IF \E p \in 1..Len(g.article_indices) :
           ~PyIndexOk(g.article_indices[p], Len(batch))
    THEN [ err |-> TRUE, tg |-> TopicGroup(<<>>, <<>>, 0, NoSummary, EmptyDict) ]
    ELSE [ err |-> FALSE,
           tg |-> TopicGroup(
               g.topic_label,
               [ p \in 1..Len(g.article_indices) |->
                   At(batch, PyIndex(g.article_indices[p], Len(batch))) ],
               IF g.primary_index \in Range(g.article_indices)
               THEN IndexOf(g.article_indices, g.primary_index) ELSE 0,
               g.group_summary,
               rekey(g.article_summaries, g.article_indices, EmptyDict)) ]

\* `for g in result.groups` over results[lo..hi] in order, split in halves;
\* nothing is built after the first result that raises.
RECURSIVE groups_from_range(_, _, _, _, _)
groups_from_range(batch, results, lo, hi, acc) ==
    IF acc.err \/ lo > hi THEN acc
    ELSE IF lo = hi
    THEN LET r == group_from_result(batch, results[lo])
         IN  [ err |-> r.err,
               groups |-> IF r.err THEN acc.groups ELSE Append(acc.groups, r.tg) ]
    ELSE LET mid == (lo + hi) \div 2
             left == groups_from_range(batch, results, lo, mid, acc)
         IN  groups_from_range(batch, results, mid + 1, hi, left)

groups_from_results(batch, results, acc) ==
    groups_from_range(batch, results, 1, Len(results), acc)

Batch_unbounded(arts, start, size) == SubSeq(arts, start + 1, Len(arts))

\* articles[start : start + batch_size]
Batch(arts, start, size) == SubSeq(arts, start + 1, Min(start + size, Len(arts)))

\* ----------------------------------------------------------- RankStage
InteractionWeight_unsigned(type) ==
    CASE type = "read" -> 1
      [] type = "tapped_through" -> 2
      [] type = "saved" -> 3
      [] type = "dismissed" -> 2
      [] OTHER -> 0

InteractionWeight(type) ==
    CASE type = "read" -> 1
      [] type = "tapped_through" -> 2
      [] type = "saved" -> 3
      [] type = "dismissed" -> 0 - 2
      [] OTHER -> 0

\* key=lambda a: (a.published_at or a.created_at)
effective_time_ingested(a) == a.created_at

effective_time(a) == IF a.published_at = NULL THEN a.created_at ELSE a.published_at

sort_items_moving_primary(tg) ==
    LET keys == [ i \in 1..Len(tg.articles) |-> effective_time(tg.articles[i]) ]
        p == SortDescPerm(keys, Len(tg.articles))
    IN  [ tg EXCEPT
            !.articles = sorted_reverse(@, keys),
            !.primary_index =
                IF @ + 1 \in 1..Len(tg.articles)
                THEN (CHOOSE q \in 1..Len(tg.articles) : p[q] = @ + 1) - 1
                ELSE @ ]

\* group.articles.sort(key=published_at or created_at, reverse=True)
sort_items(tg) ==
    [tg EXCEPT !.articles =
        sorted_reverse(@, [ i \in 1..Len(@) |-> effective_time(@[i]) ])]

\* sorted(groups, key=lambda g: len(g.articles), reverse=True)
_base_rank_ties_reversed(gs) ==
    sorted_reverse(gs, [ i \in 1..Len(gs) |->
                           Len(gs[i].articles) * (Len(gs) + 1) + i ])

_base_rank(gs) == sorted_reverse(gs, [ i \in 1..Len(gs) |-> Len(gs[i].articles) ])

RECURSIVE SumRange(_, _, _)
SumRange(s, lo, hi) ==
    IF lo > hi THEN 0
    ELSE IF lo = hi THEN s[lo]
    ELSE LET mid == (lo + hi) \div 2
         IN  SumRange(s, lo, mid) + SumRange(s, mid + 1, hi)

SumSeq(s) == SumRange(s, 1, Len(s))

\* article_scores[article_id]: the summed weights of its interactions.
article_score(interactions, id) ==
    SumSeq([ i \in 1..Len(interactions) |->
               IF interactions[i].article_id = id
               THEN InteractionWeight(interactions[i].type) ELSE 0 ])

\* Twice base + personalization * PERSONALIZATION_DAMPEN, to stay in the
\* integers: 2 * len(articles) + sum of the members' scores.
group_score2(interactions, tg) ==
    2 * Len(tg.articles)
    + SumSeq([ i \in 1..Len(tg.articles) |->
                 article_score(interactions, tg.articles[i].id) ])

_personalized_rank(gs, interactions) ==
    IF interactions = <<>> THEN _base_rank(gs)
    ELSE sorted_reverse(gs, [ i \in 1..Len(gs) |-> group_score2(interactions, gs[i]) ])

\* select(UserInteraction).where(UserInteraction.user_id == user_id)
user_interactions(d, user_id) ==
    SelectSeq(d.interactions, LAMBDA x : x.user_id = user_id)

rank_any_tier(gs, t, interactions) ==
    LET sorted_groups == [ i \in 1..Len(gs) |-> sort_items(gs[i]) ]
    IN  IF gs = <<>> THEN <<>>
        ELSE _personalized_rank(sorted_groups, interactions)

rank(gs, t, interactions) ==
    LET sorted_groups == [ i \in 1..Len(gs) |-> sort_items(gs[i]) ]
    IN  IF gs = <<>> THEN <<>>
        ELSE IF t = "paid" THEN _personalized_rank(sorted_groups, interactions)
        ELSE _base_rank(sorted_groups)

\* ------------------------------------------- Orchestrator, DB records
DigestItem(tg, item_order) ==
    [ article_id |-> At(tg.articles, item_order).id,
      sort_order |-> item_order,
      ai_summary |-> IF item_order \in DOMAIN tg.article_summaries
                     THEN tg.article_summaries[item_order] ELSE NoSummary,
      is_primary |-> (item_order = tg.primary_index) ]

DigestGroup_unordered(tg, sort_order) ==
    [ topic_label |-> tg.topic_label, sort_order |-> 0,
      summary |-> tg.group_summary,
      items |-> [ p \in 1..Len(tg.articles) |-> DigestItem(tg, p - 1) ] ]

DigestGroup(tg, sort_order) ==
    [ topic_label |-> tg.topic_label, sort_order |-> sort_order,
      summary |-> tg.group_summary,
      items |-> [ p \in 1..Len(tg.articles) |-> DigestItem(tg, p - 1) ] ]

\* now.date(): the calendar day of a clock reading.
DateOf(now_) == now_ \div DayLength

build_digest(ranked_groups, user_id, t, now_) ==
    [ user_id |-> user_id, date |-> DateOf(now_),
      tier_at_creation |-> t, generated_at |-> now_,
      groups |-> [ p \in 1..Len(ranked_groups) |-> DigestGroup(ranked_groups[p], p - 1) ] ]

\* ------------------------------------------------------ CollectStage
\* ORDER BY created_at DESC leaves rows with equal created_at in an order
\* the database chooses: every order with non-increasing created_at.
RECURSIVE tie_orders(_)
tie_orders(rows) ==
    IF rows = {} THEN { <<>> }
    ELSE UNION { { <<a>> \o t : t \in tie_orders(rows \ {a}) } : a \in rows }

\* keys holds the distinct created_at values, largest first; the rows of
\* keys[lo..hi], each tie class in any order.
RECURSIVE desc_orders(_, _, _, _)
desc_orders(rows, keys, lo, hi) ==
    IF lo > hi THEN { <<>> }
    ELSE IF lo = hi THEN tie_orders({ x \in rows : x.created_at = keys[lo] })
    ELSE LET mid == (lo + hi) \div 2
         IN  { a \o b : a \in desc_orders(rows, keys, lo, mid),
                        b \in desc_orders(rows, keys, mid + 1, hi) }

created_desc_orders(rows) ==
    LET vals == { x.created_at : x \in rows }
        keys == [ p \in 1..Cardinality(vals) |->
                    CHOOSE v \in vals : Cardinality({ w \in vals : w > v }) = p - 1 ]
    IN  desc_orders(rows, keys, 1, Len(keys))

\* Source rows and the committed Digest rows of the database.
SourceTypes == { "newsletter", "rss", "reddit" }

SourceOfType(id, user_id, type, is_active) ==
    [ id |-> id, user_id |-> user_id, type |-> type, is_active |-> is_active ]

\* A feed of the user.
Source(id, user_id, is_active) == SourceOfType(id, user_id, "rss", is_active)

\* select(Digest.generated_at).where(user_id).order_by(desc).limit(1)
last_digest(d, user_id) ==
    LET own == { d.digests[k].generated_at :
                   k \in { j \in 1..Len(d.digests) : d.digests[j].user_id = user_id } }
    IN  IF own = {} THEN NULL
        ELSE CHOOSE t \in own : \A u \in own : u <= t

source_ids_any_user(d, user_id) ==
    { s.id : s \in { x \in d.sources : x.is_active } }

\* select(Source.id).where(Source.user_id == user_id, Source.is_active)
source_ids(d, user_id) ==
    { s.id : s \in { x \in d.sources : x.user_id = user_id /\ x.is_active } }

collect_rows_not_before(d, ids, last) ==
    { a \in Range(d.articles) :
        /\ a.source_id \in ids
        /\ \/ last = NULL
           \/ (a.published_at # NULL /\ a.published_at >= last)
           \/ (a.published_at = NULL /\ a.created_at >= last) }

\* select(Article).where(Article.source_id.in_(source_ids)) with the filter
\* on last_digest when there is one, on the tables as they are when the
\* statement runs.
collect_rows(d, ids, last) ==
    { a \in Range(d.articles) :
        /\ a.source_id \in ids
        /\ \/ last = NULL
           \/ (a.published_at # NULL /\ a.published_at > last)
           \/ (a.published_at = NULL /\ a.created_at > last) }

\* collect before its first query.
NotRead == [ last_digest |-> NULL, source_ids |-> {} ]

\* ------------------------------------------------------------- state
VARIABLES
    tier,           \* UserTier of the run: "free" or "paid"
    llm,            \* the Orchestrator's llm: "none", an LLMService
                    \* ("service"), or one whose two methods are replaced
                    \* by stubs ("patched")
    db,             \* the committed tables (articles, sources, digests,
                    \* interactions) and the clock
    dedup_oracle,   \* the outcomes the oracle will give to dedup calls
    group_oracle,   \* the outcomes the oracle will give to grouping calls
    pc,             \* position of Orchestrator.generate
    stages,         \* the stages entered so far, in order
    collecting,     \* collect's last_digest and source_ids, once read
    articles,       \* collect_stage.collect result
    groups,         \* _semantic_dedup: the DedupGroup objects, by index
    merged_indices, \* _semantic_dedup: merged_indices
    start,          \* the current batch's start offset
    attempts,       \* outcomes of the _call attempts of the running call
    phase1,         \* the result of _fingerprint_dedup of this run
    dedup_groups,   \* dedup_stage.dedup result
    all_groups,     \* _llm_group: all_groups
    topic_groups,   \* group_stage.group result
    ranked,         \* rank_stage.rank result
    digest,         \* the Digest records added to the session
    outcome,        \* "running", "none", "digest" or "error" (generate raised)
    oracle_log,     \* finished oracle method calls, in order
    run_no,         \* how many generate_user_digest tasks of the user started
    other_task,     \* a generate_user_digest task beside the first: of
                    \* another user, or of the user again
    polls,          \* the open sessions of feed polls and inbound webhooks
    refresh_tokens, \* the refresh_tokens table
    requests,       \* the requests to AuthService, in flight and answered
    limits          \* how far the tasks, feeds, routes and clock of this
                    \* behaviour go

vars == << tier, llm, collecting, db, dedup_oracle, group_oracle, pc, stages, articles,
           groups, merged_indices, start, attempts, phase1, dedup_groups,
           all_groups, topic_groups, ranked, digest, outcome, oracle_log,
           run_no, other_task, polls, refresh_tokens, requests, limits >>

\* What Orchestrator.generate of the user's task never touches.
outside == << run_no, other_task, polls, refresh_tokens, requests, limits >>

\* The user generate runs for, and another user of the service.
RunUser == 1
OtherUser == 2

NoDigest ==
    [ user_id |-> NULL, date |-> NULL, tier_at_creation |-> "none",
      generated_at |-> NULL, groups |-> <<>> ]

Raise == [ kind |-> "raise", groups |-> <<>> ]
BadShape == [ kind |-> "bad", groups |-> <<>> ]
Ok(gs) == [ kind |-> "ok", groups |-> gs ]

\* An oracle with no scripted outcome left is unavailable: the call raises.
NextOutcome(script) == IF script = <<>> THEN Raise ELSE Head(script)
Rest(script) == IF script = <<>> THEN <<>> ELSE Tail(script)

LogEntry(op, st, n, atts, raised, gs) ==
    [ op |-> op, start |-> st, size |-> n, attempts |-> atts,
      raised |-> raised, groups |-> gs ]

\* ------------------------------------------------------------ actions
\* Stage 1 of Orchestrator.generate, CollectStage.collect, up to the
\* result of its first query: generated_at of the user's last digest.
CollectLastDigest ==
    /\ pc = "collect"
    /\ stages' = Append(stages, "collect")
    /\ collecting' = [ collecting EXCEPT !.last_digest = last_digest(db, RunUser) ]
    /\ pc' = "collect_sources"
    /\ UNCHANGED outside
    /\ UNCHANGED << tier, llm, db, dedup_oracle, group_oracle, articles, groups,
                    merged_indices, start, attempts, phase1, dedup_groups,
                    all_groups, topic_groups, ranked, digest, outcome,
                    oracle_log >>

\* collect's second query, the ids of the user's active sources, and
\* `if not source_ids: return []`, on which generate returns None.
CollectSourceIds ==
    /\ pc = "collect_sources"
    /\ LET ids == source_ids(db, RunUser)
       IN  /\ collecting' = [ collecting EXCEPT !.source_ids = ids ]
           /\ IF ids = {}
              THEN pc' = "done" /\ outcome' = "none"
              ELSE pc' = "collect_articles" /\ UNCHANGED outcome
    /\ UNCHANGED outside
    /\ UNCHANGED << tier, llm, db, dedup_oracle, group_oracle, stages, articles,
                    groups, merged_indices, start, attempts, phase1,
                    dedup_groups, all_groups, topic_groups, ranked, digest,
                    oracle_log >>

\* collect's third query, the articles, and `if not articles: return None`.
Collect ==
    /\ pc = "collect_articles"
    /\ \E result \in created_desc_orders(
                       collect_rows(db, collecting.source_ids, collecting.last_digest)) :
        /\ articles' = result
        /\ IF result = <<>>
           THEN pc' = "done" /\ outcome' = "none"
           ELSE pc' = "dedup" /\ UNCHANGED outcome
    /\ UNCHANGED outside
    /\ UNCHANGED << tier, llm, collecting, db, dedup_oracle, group_oracle, stages,
                    groups, merged_indices, start, attempts, phase1,
                    dedup_groups, all_groups, topic_groups, ranked, digest,
                    oracle_log >>

\* `if not dedup_groups: return None`, else on to stage 3.
DedupReturns(result) ==
    /\ dedup_groups' = result
    /\ IF result = <<>>
       THEN pc' = "done" /\ outcome' = "none"
       ELSE pc' = "group" /\ UNCHANGED outcome

\* `if tier == UserTier.paid and self.llm` of DedupStage.dedup.
semantic_enabled_any_tier(t, l) == l # "none"

semantic_enabled(t, l) == t = "paid" /\ l # "none"

\* `if tier == UserTier.paid and self.llm` of GroupStage.group.
llm_grouping_enabled(t, l) == t = "paid" /\ l # "none"

\* Stage 2 up to the first oracle call: DedupStage.dedup, Phase 1, and the
\* head of _semantic_dedup.
DedupStart ==
    /\ pc = "dedup"
    /\ stages' = Append(stages, "dedup")
    /\ LET fp_groups == _fingerprint_dedup(articles)
       IN  /\ phase1' = fp_groups
           /\ IF semantic_enabled(tier, llm) /\ Len(fp_groups) > 1
              THEN /\ pc' = "dedup_call"
                   /\ groups' = fp_groups
                   /\ merged_indices' = {}
                   /\ start' = 0
                   /\ attempts' = <<>>
                   /\ UNCHANGED << dedup_groups, outcome >>
              ELSE /\ DedupReturns(fp_groups)
                   /\ UNCHANGED << groups, merged_indices, start, attempts >>
    /\ UNCHANGED outside
    /\ UNCHANGED << tier, llm, collecting, db, dedup_oracle, group_oracle, articles,
                    all_groups, topic_groups, ranked, digest, oracle_log >>

\* The body of _semantic_dedup's batch loop after the await: the except
\* turns a raising call into result = None, and `if result and
\* result.groups` skips an empty answer; otherwise the groups are merged.
_semantic_dedup_batch_uncaught(st, batch_start, raised, result) ==
    IF raised THEN [st EXCEPT !.err = TRUE]
    ELSE IF result = <<>> THEN st
    ELSE MergeGroups(st, result, batch_start)

_semantic_dedup_batch(st, batch_start, raised, result) ==
    IF raised \/ result = <<>> THEN st
    ELSE MergeGroups(st, result, batch_start)

\* _semantic_dedup from the return of find_semantic_duplicates for the batch
\* at `start` to the next oracle call or the end of the stage.  result is
\* the DeduplicationResult's groups; raised says the call raised instead;
\* tried are the outcomes of the _call attempts it made.
DedupBatchDone(tried, raised, result) ==
    LET st == _semantic_dedup_batch(
                  [ groups |-> groups, merged |-> merged_indices, err |-> FALSE ],
                  start, raised, result)
        next == start + DEDUP_BATCH_SIZE
    IN  /\ oracle_log' = Append(oracle_log,
               LogEntry("dedup", start,
                        Len(Batch(groups, start, DEDUP_BATCH_SIZE)),
                        tried, raised, result))
        /\ attempts' = <<>>
        /\ IF st.err
           THEN /\ pc' = "done" /\ outcome' = "error"
                /\ UNCHANGED << groups, merged_indices, start, dedup_groups >>
           ELSE /\ groups' = st.groups
                /\ merged_indices' = st.merged
                /\ IF next < Len(groups)
                   THEN /\ start' = next
                        /\ UNCHANGED << pc, outcome, dedup_groups >>
                   ELSE /\ DedupReturns(final_groups(st.groups, st.merged))
                        /\ UNCHANGED start

\* `for attempt in range(max_retries + 1)` with `if attempt == max_retries`
\* in the except: the attempt numbered max_retries is the last one.
is_last_attempt_late(attempt) == attempt = max_retries + 1

is_last_attempt(attempt) == attempt = max_retries

\* One attempt of LLMService.find_semantic_duplicates: await self._call and
\* parse; an exception in either is caught and retried until attempt ==
\* max_retries, when the empty DeduplicationResult is returned.
DedupAttempt ==
    /\ pc = "dedup_call" /\ llm = "service"
    /\ LET o == NextOutcome(dedup_oracle)
           tried == Append(attempts, o.kind)
       IN  /\ dedup_oracle' = Rest(dedup_oracle)
           /\ IF o.kind = "ok"
              THEN DedupBatchDone(tried, FALSE, dedup_parse(o.groups))
              ELSE IF is_last_attempt(Len(attempts))
              THEN DedupBatchDone(tried, FALSE, <<>>)
              ELSE /\ attempts' = tried
                   /\ UNCHANGED << pc, outcome, groups, merged_indices, start,
                                   dedup_groups, oracle_log >>
    /\ UNCHANGED outside
    /\ UNCHANGED << tier, llm, collecting, db, group_oracle, stages, articles, phase1,
                    all_groups, topic_groups, ranked, digest >>

\* find_semantic_duplicates replaced by a stub: it returns a
\* DeduplicationResult as given, or raises into _semantic_dedup's except.
DedupStubCall ==
    /\ pc = "dedup_call" /\ llm = "patched"
    /\ LET o == NextOutcome(dedup_oracle)
       IN  /\ dedup_oracle' = Rest(dedup_oracle)
           /\ DedupBatchDone(<<o.kind>>, o.kind # "ok", o.groups)
    /\ UNCHANGED outside
    /\ UNCHANGED << tier, llm, collecting, db, group_oracle, stages, articles, phase1,
                    all_groups, topic_groups, ranked, digest >>

\* `if not topic_groups: return None`, else on to stage 4.
GroupReturns(result) ==
    /\ topic_groups' = result
    /\ IF result = <<>>
       THEN pc' = "done" /\ outcome' = "none"
       ELSE pc' = "rank" /\ UNCHANGED outcome

\* Stage 3 up to the first oracle call: GroupStage.group.
GroupStart ==
    /\ pc = "group"
    /\ stages' = Append(stages, "group")
    /\ IF llm_grouping_enabled(tier, llm)
       THEN /\ pc' = "group_call"
            /\ start' = 0
            /\ all_groups' = <<>>
            /\ attempts' = <<>>
            /\ UNCHANGED << topic_groups, outcome >>
       ELSE /\ GroupReturns(_tfidf_group(Primaries(dedup_groups)))
            /\ UNCHANGED << start, all_groups, attempts >>
    /\ UNCHANGED outside
    /\ UNCHANGED << tier, llm, collecting, db, dedup_oracle, group_oracle, articles, groups,
                    merged_indices, phase1, dedup_groups, ranked, digest,
                    oracle_log >>

GroupResult(topic_label, article_indices, primary_index, group_summary, article_summaries) ==
    [ topic_label |-> topic_label, article_indices |-> article_indices,
      primary_index |-> primary_index, group_summary |-> group_summary,
      article_summaries |-> article_summaries ]

\* What the oracle answers for a batch of n articles.  An oracle that does
\* as the prompt asks puts every article of the batch in exactly one group:
\* each in its own, or all in one.
GroupAnswer(o, n) ==
    CASE o.kind = "each_own_group" ->
           [ i \in 1..n |-> GroupResult(<<"Topic">>, <<i - 1>>, i - 1, "G", <<>>) ]
      [] o.kind = "one_group" ->
           << GroupResult(<<"Topic">>, [ i \in 1..n |-> i - 1 ], n - 1, "G", <<>>) >>
      [] OTHER -> o.groups

Answered(o) == o.kind \in { "ok", "each_own_group", "one_group" }

\* The body of _llm_group's batch loop after the await.  status "none" is
\* `return None` (the call raised, or it returned no groups), "error" an
\* IndexError from batch[i], "ok" the batch's groups appended to all_groups.
_llm_group_batch_skip(acc_groups, batch, raised, result) ==
    IF raised \/ result = <<>>
    THEN [ status |-> "ok", groups |-> acc_groups ]
    ELSE LET built == groups_from_results(batch, result,
                          [ err |-> FALSE, groups |-> acc_groups ])
         IN  IF built.err THEN [ status |-> "error", groups |-> <<>> ]
             ELSE [ status |-> "ok", groups |-> built.groups ]

_llm_group_batch(acc_groups, batch, raised, result) ==
    IF raised \/ result = <<>>
    THEN [ status |-> "none", groups |-> <<>> ]
    ELSE LET built == groups_from_results(batch, result,
                          [ err |-> FALSE, groups |-> acc_groups ])
         IN  IF built.err THEN [ status |-> "error", groups |-> <<>> ]
             ELSE [ status |-> "ok", groups |-> built.groups ]

\* _llm_group from the return of group_and_summarize for the batch at
\* `start` to the next oracle call or the end of the stage, and the rest of
\* GroupStage.group: `if result: return result`, else the TF-IDF fallback.
GroupBatchDone(tried, raised, result) ==
    LET primaries == Primaries(dedup_groups)
        batch == Batch(primaries, start, GROUP_BATCH_SIZE)
        step == _llm_group_batch(all_groups, batch, raised, result)
        next == start + GROUP_BATCH_SIZE
    IN  /\ oracle_log' = Append(oracle_log,
               LogEntry("group", start, Len(batch), tried, raised, result))
        /\ attempts' = <<>>
        /\ IF step.status = "none"
           THEN /\ GroupReturns(_tfidf_group(primaries))
                /\ UNCHANGED << start, all_groups >>
           ELSE IF step.status = "error"
           THEN /\ pc' = "done" /\ outcome' = "error"
                /\ UNCHANGED << start, all_groups, topic_groups >>
           ELSE IF next < Len(primaries)
           THEN /\ all_groups' = step.groups
                /\ start' = next
                /\ UNCHANGED << pc, outcome, topic_groups >>
           ELSE /\ all_groups' = step.groups
                /\ GroupReturns(IF step.groups # <<>> THEN step.groups
                                ELSE _tfidf_group(primaries))
                /\ UNCHANGED start

\* One attempt of LLMService.group_and_summarize.
GroupAttempt ==
    /\ pc = "group_call" /\ llm = "service"
    /\ LET o == NextOutcome(group_oracle)
           tried == Append(attempts, o.kind)
           n == Len(Batch(Primaries(dedup_groups), start, GROUP_BATCH_SIZE))
       IN  /\ group_oracle' = Rest(group_oracle)
           /\ IF Answered(o)
              THEN GroupBatchDone(tried, FALSE, GroupAnswer(o, n))
              ELSE IF is_last_attempt(Len(attempts))
              THEN GroupBatchDone(tried, FALSE, <<>>)
              ELSE /\ attempts' = tried
                   /\ UNCHANGED << pc, outcome, start, all_groups, topic_groups,
                                   oracle_log >>
    /\ UNCHANGED outside
    /\ UNCHANGED << tier, llm, collecting, db, dedup_oracle, stages, articles, groups,
                    merged_indices, phase1, dedup_groups, ranked, digest >>

\* group_and_summarize replaced by a stub.
GroupStubCall ==
    /\ pc = "group_call" /\ llm = "patched"
    /\ LET o == NextOutcome(group_oracle)
           n == Len(Batch(Primaries(dedup_groups), start, GROUP_BATCH_SIZE))
       IN  /\ group_oracle' = Rest(group_oracle)
           /\ GroupBatchDone(<<o.kind>>, ~Answered(o), GroupAnswer(o, n))
    /\ UNCHANGED outside
    /\ UNCHANGED << tier, llm, collecting, db, dedup_oracle, stages, articles, groups,
                    merged_indices, phase1, dedup_groups, ranked, digest >>

\* Stage 4: RankStage.rank.
Rank ==
    /\ pc = "rank"
    /\ stages' = Append(stages, "rank")
    /\ ranked' = rank(topic_groups, tier, user_interactions(db, RunUser))
    /\ pc' = "build"
    /\ UNCHANGED outside
    /\ UNCHANGED << tier, llm, collecting, db, dedup_oracle, group_oracle, articles, groups,
                    merged_indices, start, attempts, phase1, dedup_groups,
                    all_groups, topic_groups, digest, outcome, oracle_log >>

\* UniqueConstraint("user_id", "date"): whether a Digest row of this user
\* and day can be flushed.
uq_digest_user_date(d, user_id, day) ==
    \A k \in 1..Len(d.digests) :
        ~(d.digests[k].user_id = user_id /\ d.digests[k].date = day)

\* Whether a task at task_pc holds a Digest row of this user and day that
\* it flushed and has not committed yet: the flush of a second such row
\* waits for that task's transaction to end.
flushed_by(task_pc, task_outcome, task_digest, user_id, day) ==
    /\ task_pc = "done" /\ task_outcome = "digest"
    /\ task_digest.user_id = user_id /\ task_digest.date = day

\* "Build DB records" up to `await db.flush()`: the clock is read and the
\* Digest of that time and day is added to the session.
Build ==
    /\ pc = "build"
    /\ digest' = build_digest(<<>>, RunUser, tier, db.now)
    /\ pc' = "flush"
    /\ UNCHANGED outside
    /\ UNCHANGED << tier, llm, collecting, db, dedup_oracle, group_oracle, stages,
                    articles, groups, merged_indices, start, attempts, phase1,
                    dedup_groups, all_groups, topic_groups, ranked, outcome,
                    oracle_log >>

\* The flush of the Digest row, which waits while another task holds an
\* uncommitted Digest of the same user and day and raises IntegrityError
\* when the user has a committed one; then the groups and items are added
\* and flushed, and generate returns the Digest.
Flush ==
    /\ pc = "flush"
    /\ ~flushed_by(other_task.pc, other_task.outcome, other_task.digest,
                   digest.user_id, digest.date)
    /\ IF uq_digest_user_date(db, digest.user_id, digest.date)
       THEN /\ digest' = build_digest(ranked, digest.user_id,
                                      digest.tier_at_creation, digest.generated_at)
            /\ outcome' = "digest"
       ELSE /\ outcome' = "error"
            /\ digest' = NoDigest
    /\ pc' = "done"
    /\ UNCHANGED outside
    /\ UNCHANGED << tier, llm, collecting, db, dedup_oracle, group_oracle, stages,
                    articles, groups, merged_indices, start, attempts, phase1,
                    dedup_groups, all_groups, topic_groups, ranked, oracle_log >>

Next ==
    \/ CollectLastDigest
    \/ CollectSourceIds
    \/ Collect
    \/ DedupStart
    \/ DedupAttempt
    \/ DedupStubCall
    \/ GroupStart
    \/ GroupAttempt
    \/ GroupStubCall
    \/ Rank
    \/ Build
    \/ Flush

\* ------------------------------------------------------- initial states
\* Texts of the modelled articles: character lengths 0, 11, 28 and 12;
\* keyword sets {}, {mars, rocket}, {mars, rocket, launch, orbit} and
\* {launch, orbit}.
Contents ==
    { <<>>,
      <<"mars", "rocket">>,
      <<"mars", "rocket", "the", "launch", "orbit">>,
      <<"launch", "orbit">> }

ContentAt(i) ==
    << <<"mars", "rocket">>,
       <<"mars", "rocket", "the", "launch", "orbit">>,
       <<"launch", "orbit">> >>[((i - 1) % 3) + 1]

\* Row i of the articles table: inserted i-th, not carrying a publish time.
Row(i, fp, content) == Article(i, 1, <<"ai">>, content, NULL, i, fp)

Database(rows) ==
    [ articles |-> rows, sources |-> { Source(1, RunUser, TRUE) },
      digests |-> <<>>, interactions |-> <<>>, now |-> 100 ]

\* Fingerprints are only compared for equality, so a table's fingerprints
\* are numbered in order of first appearance.
FpPatterns(n) ==
    { f \in [ 1..n -> 1..NumFingerprints ] :
        \A i \in 1..n : \A v \in 1..(f[i] - 1) : \E j \in 1..(i - 1) : f[j] = v }

NumPrimaries(f) == Cardinality({ f[i] : i \in DOMAIN f })

SeqsUpTo(S, k) == UNION { [ 1..m -> S ] : m \in 0..k }

\* How far a behaviour goes: the tasks of the user that start, the sessions
\* of polls and webhooks open at a time, the changes the routes make, the
\* steps of the clock within a day and the midnights it passes.
Limits(runs, open, changes, ticks, days) ==
    [ runs |-> runs, open |-> open, changes |-> changes, ticks |-> ticks,
      days |-> days ]

Widest == Limits(MaxRuns, MaxOpen, MaxChanges, MaxTicks, MaxRuns - 1)

\* No task beside the user's.
NoTask ==
    [ pc |-> "closed", user_id |-> NULL, tier |-> "free", llm |-> "none",
      dedup_oracle |-> <<>>, group_oracle |-> <<>>,
      last_digest |-> NULL, source_ids |-> {}, articles |-> <<>>,
      dedup_groups |-> <<>>, topic_groups |-> <<>>, ranked |-> <<>>,
      digest |-> NoDigest, outcome |-> "none" ]

InitRunBeside(d, t, l, ds, gs, o) ==
    /\ tier = t /\ llm = l /\ db = d
    /\ dedup_oracle = ds /\ group_oracle = gs
    /\ pc = "collect" /\ stages = <<>> /\ articles = <<>>
    /\ collecting = NotRead
    /\ groups = <<>> /\ merged_indices = {} /\ start = 0 /\ attempts = <<>>
    /\ phase1 = <<>> /\ dedup_groups = <<>> /\ all_groups = <<>>
    /\ topic_groups = <<>> /\ ranked = <<>> /\ digest = NoDigest
    /\ outcome = "running" /\ oracle_log = <<>>
    /\ run_no = 1 /\ other_task = o /\ polls = <<>>
    /\ refresh_tokens = <<>> /\ requests = <<>>

InitRun(d, t, l, ds, gs) == InitRunBeside(d, t, l, ds, gs, NoTask)

\* What LLMService's retry loops can meet: up to max_retries + 1 failed
\* attempts, then possibly an answer.
RetryScripts(answers) ==
    LET fails == SeqsUpTo({ Raise, BadShape }, max_retries + 1)
    IN  fails \cup { f \o <<a>> : f \in { g \in fails : Len(g) <= max_retries },
                                  a \in answers }

\* An oracle that would merge the first two articles of every dedup batch
\* and put every article of a grouping batch in a group of its own.
WillingDedup == << Ok(<< <<0, 1>> >>) >>
WillingGroup == << [ kind |-> "each_own_group", groups |-> <<>> ] >>

\* Any table of up to MaxArticles articles, any fingerprints and texts; the
\* free tier without an oracle and with a willing one, the paid tier without
\* an oracle and with one that is down.
InitTables ==
    \E n \in 0..MaxArticles : \E f \in FpPatterns(n) : \E c \in [ 1..n -> Contents ] :
    \E cfg \in { <<"free", "none", <<>>, <<>> >>,
                 <<"free", "service", WillingDedup, WillingGroup>>,
                 <<"paid", "none", <<>>, <<>> >>,
                 <<"paid", "service", <<>>, <<>> >>,
                 <<"paid", "patched", <<>>, <<>> >> } :
        InitRun(Database([ i \in 1..n |-> Row(i, f[i], c[i]) ]),
                cfg[1], cfg[2], cfg[3], cfg[4])

\* The dedup oracle's answers for a batch of np primaries: up to
\* MaxOracleGroups ascending pairs of indices 0..np (np is one past the
\* batch), or one group of one to three indices -1..np in any order.
AscendingPairs(np) == { p \in [ 1..2 -> 0..np ] : p[1] < p[2] }

DedupAnswers(np) ==
    SeqsUpTo(AscendingPairs(np), MaxOracleGroups)
    \cup { <<g>> : g \in UNION { [ 1..m -> (0 - 1)..np ] : m \in 1..3 } }

InitDedupOracle ==
    \E n \in 2..MaxArticles : \E f \in FpPatterns(n) :
        /\ NumPrimaries(f) >= 2
        /\ \/ \E o \in { Raise } \cup { Ok(a) : a \in DedupAnswers(NumPrimaries(f)) } :
                InitRun(Database([ i \in 1..n |-> Row(i, f[i], ContentAt(i)) ]),
                        "paid", "patched", <<o>>, <<>>)
           \/ \E sc \in RetryScripts({ Ok(<<>>), Ok(<< <<0>>, <<1, 0>> >>) }) :
                InitRun(Database([ i \in 1..n |-> Row(i, f[i], ContentAt(i)) ]),
                        "paid", "service", sc, <<>>)

\* The grouping oracle's answers for a batch of n articles: up to
\* MaxOracleGroups groups, each of no index, of one index, of an ascending
\* pair, of index 0 twice or of indices 1 and 0 (indices 0..n, n is one past
\* the batch), with a
\* summary for each index named; the groups of an answer name the same
\* primary.
SummaryText == <<"s0", "s1", "s2", "s3", "s4", "s5">>

GroupIndices(n) ==
    { <<>> } \cup [ 1..1 -> 0..n ] \cup AscendingPairs(n) \cup { <<0, 0>>, <<1, 0>> }

GroupResults(n, p) ==
    { GroupResult(<<"Topic">>, idx, p, "G",
                  [ k \in 1..Len(idx) |-> << idx[k], SummaryText[idx[k] + 1] >> ]) :
        idx \in GroupIndices(n) }

GroupAnswers(n) == UNION { SeqsUpTo(GroupResults(n, p), MaxOracleGroups) : p \in 0..1 }

InitGroupOracle ==
    \E n \in 1..MaxArticles :
        \/ \E o \in { Raise } \cup { Ok(a) : a \in GroupAnswers(n) } :
             InitRun(Database([ i \in 1..n |-> Row(i, i, ContentAt(i)) ]),
                     "paid", "patched", <<>>, <<o>>)
        \/ \E sc \in RetryScripts({ Ok(<<>>), [ kind |-> "each_own_group", groups |-> <<>> ] }) :
             InitRun(Database([ i \in 1..n |-> Row(i, i, ContentAt(i)) ]),
                     "paid", "service", <<>>, sc)

\* Tables that need more than one oracle batch: one article more than one
\* grouping batch, than two grouping batches, than one dedup batch.
BigSizes == { GROUP_BATCH_SIZE + 1, 2 * GROUP_BATCH_SIZE + 1, DEDUP_BATCH_SIZE + 1 }

Batches(n, size) == (n + size - 1) \div size

BigDedupOutcomes ==
    { Raise, Ok(<<>>), Ok(<< <<1, 0>>, <<2, 3>> >>),
      Ok(<< <<DEDUP_BATCH_SIZE - 1, DEDUP_BATCH_SIZE>> >>) }

BigGroupOutcomes ==
    { Raise, Ok(<<>>), [ kind |-> "each_own_group", groups |-> <<>> ],
      [ kind |-> "one_group", groups |-> <<>> ] }

\* Either the dedup oracle's outcome varies from batch to batch and the
\* grouping oracle behaves alike on every batch, or the dedup oracle is down
\* and the grouping oracle's outcome varies from batch to batch.
InitBatches ==
    \E n \in BigSizes :
        \/ \E ds \in [ 1..Batches(n, DEDUP_BATCH_SIZE) -> BigDedupOutcomes ] :
           \E g \in { Raise, [ kind |-> "each_own_group", groups |-> <<>> ] } :
               InitRun(Database([ i \in 1..n |-> Row(i, i, ContentAt(i)) ]),
                       "paid", "patched", ds,
                       [ b \in 1..Batches(n, GROUP_BATCH_SIZE) |-> g ])
        \/ \E gs \in [ 1..Batches(n, GROUP_BATCH_SIZE) -> BigGroupOutcomes ] :
               InitRun(Database([ i \in 1..n |-> Row(i, i, ContentAt(i)) ]),
                       "paid", "patched",
                       [ b \in 1..Batches(n, DEDUP_BATCH_SIZE) |-> Raise ], gs)

\* Tables for the Ranker: every article on one of two topics, so that the
\* statistical groups are the articles of a topic.
TwoTopics == { <<"mars", "rocket">>, <<"launch", "orbit">> }

\* Publish times: none, one equal to an ingestion time, one after them all.
PublishTimes == { NULL, 2, 5 }

UserInteraction(user_id, article_id, type) ==
    [ user_id |-> user_id, article_id |-> article_id, type |-> type ]

InteractionTypes == << "read", "tapped_through", "saved", "dismissed" >>

RankRun(rows, t, interactions) ==
    InitRun([ Database(rows) EXCEPT !.interactions = interactions ],
            t, "none", <<>>, <<>>)

\* Any publish times, for either tier, the user with and without history.
InitRankTimes ==
    \E n \in 1..MaxArticles : \E c \in [ 1..n -> TwoTopics ] :
    \E pub \in [ 1..n -> PublishTimes ] : \E t \in { "free", "paid" } :
    \E h \in { <<>>, << UserInteraction(RunUser, 1, "saved") >> } :
        RankRun([ i \in 1..n |-> Article(i, 1, <<"ai">>, c[i], pub[i], i, i) ], t, h)

\* The records a history is made of: the user's with the oldest and with the
\* newest article, of every kind, and one of another user.
InteractionRecords(n) ==
    [ k \in 1..4 |-> UserInteraction(RunUser, 1, InteractionTypes[k]) ]
    \o [ k \in 1..4 |-> UserInteraction(RunUser, n, InteractionTypes[k]) ]
    \o << UserInteraction(OtherUser, 1, "saved") >>

\* Up to MaxInteractions records, any record any number of times, listed in
\* the order of InteractionRecords.
Histories(n) ==
    LET recs == InteractionRecords(n)
    IN  UNION { { [ i \in 1..m |-> recs[f[i]] ] :
                    f \in { g \in [ 1..m -> 1..Len(recs) ] :
                               \A i \in 1..(m - 1) : g[i] <= g[i + 1] } } :
                m \in 0..MaxInteractions }

InitRankInteractions ==
    \E n \in 1..MaxArticles : \E c \in [ 1..n -> TwoTopics ] :
    \E h \in Histories(n) :
    \E t \in { "free", "paid" } :
        RankRun([ i \in 1..n |-> Row(i, i, c[i]) ], t, h)

\* Tables for the Collector: the user's active source 1 and inactive
\* source 2, another user's active source 3; rows created from time 11 on;
\* publish times none, equal to the last digest's time and after it; the
\* user without a digest, with one, and with two of different days (the
\* table has a unique constraint on user and day) next to a later one of
\* another user.
CollectSources ==
    { Source(1, RunUser, TRUE), Source(2, RunUser, FALSE), Source(3, OtherUser, TRUE) }

EarlierDigest(user_id, generated_at) ==
    [ NoDigest EXCEPT !.user_id = user_id, !.date = DateOf(generated_at),
                      !.tier_at_creation = "free", !.generated_at = generated_at ]

DigestTables ==
    { <<>>,
      << EarlierDigest(RunUser, 12) >>,
      << EarlierDigest(RunUser, 12), EarlierDigest(RunUser, 1),
         EarlierDigest(OtherUser, 19) >> }

CollectRun(rows, srcs, digests) ==
    InitRun([ Database(rows) EXCEPT !.sources = srcs, !.digests = digests ],
            "free", "none", <<>>, <<>>)

InitCollect ==
    \E n \in 1..MaxArticles : \E ds \in DigestTables :
        \/ \E src \in [ 1..n -> 1..3 ] :
             CollectRun([ i \in 1..n |-> Article(i, src[i], <<"ai">>, ContentAt(i), NULL,
                                                  10 + i, i) ],
                        CollectSources, ds)
        \/ \E pub \in [ 1..n -> { NULL, 12, 13 } ] : \E srcs \in { CollectSources, {} } :
             CollectRun([ i \in 1..n |-> Article(i, 1, <<"ai">>, ContentAt(i), pub[i],
                                                  10 + i, i) ],
                        srcs, ds)

Init ==
    /\ limits = Widest
    /\ \/ InitTables \/ InitDedupOracle \/ InitGroupOracle \/ InitBatches
       \/ InitRankTimes \/ InitRankInteractions \/ InitCollect

Spec == Init /\ [][Next]_vars

\* ------------------------------------- the tasks around Orchestrator.generate
\* generate_digest._generate_for_user after generate: `if digest: commit`.
task_commits_always(out) == TRUE

task_commits(out) == out = "digest"

\* The end of _generate_for_user: the commit when generate returned a
\* Digest, then the session closes and what was only flushed is rolled back.
TaskFinish ==
    /\ pc = "done"
    /\ pc' = "closed"
    /\ db' = IF task_commits(outcome)
             THEN [ db EXCEPT !.digests = Append(@, digest) ]
             ELSE db
    /\ UNCHANGED outside
    /\ UNCHANGED << tier, llm, collecting, dedup_oracle, group_oracle, stages, articles,
                    groups, merged_indices, start, attempts, phase1,
                    dedup_groups, all_groups, topic_groups, ranked, digest,
                    outcome, oracle_log >>

\* A generate_user_digest task of the user that starts after the one these
\* variables held has ended: a new session, a new Orchestrator.  Nothing
\* keeps a task from starting while another one runs: that start is
\* OverlapStart.
TaskStart ==
    /\ pc = "closed"
    /\ run_no < limits.runs
    /\ run_no' = run_no + 1
    /\ pc' = "collect" /\ stages' = <<>> /\ articles' = <<>>
    /\ collecting' = NotRead
    /\ groups' = <<>> /\ merged_indices' = {} /\ start' = 0 /\ attempts' = <<>>
    /\ phase1' = <<>> /\ dedup_groups' = <<>> /\ all_groups' = <<>>
    /\ topic_groups' = <<>> /\ ranked' = <<>> /\ digest' = NoDigest
    /\ outcome' = "running" /\ oracle_log' = <<>>
    /\ UNCHANGED << tier, llm, db, dedup_oracle, group_oracle, other_task,
                    polls, refresh_tokens, requests, limits >>

\* The clock reaches the next day.
Midnight ==
    /\ DateOf(db.now) < DateOf(Database(<<>>).now) + limits.days
    /\ db' = [ db EXCEPT !.now = (DateOf(db.now) + 1) * DayLength ]
    /\ UNCHANGED outside
    /\ UNCHANGED << tier, llm, collecting, dedup_oracle, group_oracle, pc, stages, articles,
                    groups, merged_indices, start, attempts, phase1,
                    dedup_groups, all_groups, topic_groups, ranked, digest,
                    outcome, oracle_log >>

\* ------------------------------------------------------------ ingestion
\* The clock moves on within the day.
Tick ==
    /\ db.now % DayLength < limits.ticks
    /\ db' = [ db EXCEPT !.now = @ + 1 ]
    /\ UNCHANGED outside
    /\ UNCHANGED << tier, llm, collecting, dedup_oracle, group_oracle, pc, stages, articles,
                    groups, merged_indices, start, attempts, phase1,
                    dedup_groups, all_groups, topic_groups, ranked, digest,
                    outcome, oracle_log >>

\* The entries a feed serves, by fingerprint: one without a publish time,
\* one published long ago, one dated ahead of the clock.
FeedTimes == << NULL, 1, 1000 >>

FeedTime(fingerprint) == FeedTimes[((fingerprint - 1) % Len(FeedTimes)) + 1]

\* A session of _poll_all_feeds or of the inbound webhook after its first
\* query, which starts its transaction: now() is that time in all of it.
\* sources are the sources it has to go through, the first one being
\* stored; rows are what it inserted, touched the sources it updated; pc is
\* "batch" between two entries, "insert" after the query of store_article
\* for the entry of this fingerprint, "commit" before the commit.
Session(kind, now_, sources) ==
    [ kind |-> kind, now |-> now_, sources |-> sources, rows |-> <<>>,
      touched |-> {}, fingerprint |-> NULL,
      pc |-> IF sources = <<>> THEN "commit" ELSE "batch" ]

\* The rows stored and the rows the open sessions hold or are to insert.
Load(d, sessions) ==
    Len(d.articles)
    + SumSeq([ k \in 1..Len(sessions) |->
                  Len(sessions[k].rows) + IF sessions[k].pc = "insert" THEN 1 ELSE 0 ])

\* select(Source).where(is_active, type in (rss, reddit)): every user's.
polled_sources(d) ==
    { x.id : x \in { y \in d.sources : y.is_active /\ y.type \in { "rss", "reddit" } } }

\* _poll_all_feeds up to the result of its query of the sources, in an
\* order the database chooses.
PollStart ==
    /\ Len(polls) < limits.open
    /\ \E order \in tie_orders(polled_sources(db)) :
         polls' = Append(polls, Session("poll", db.now, order))
    /\ UNCHANGED << run_no, other_task, refresh_tokens, requests, limits >>
    /\ UNCHANGED << tier, llm, collecting, db, dedup_oracle, group_oracle, pc, stages,
                    articles, groups, merged_indices, start, attempts, phase1,
                    dedup_groups, all_groups, topic_groups, ranked, digest,
                    outcome, oracle_log >>

\* routes/inbound.inbound_email up to the result of its query of the
\* newsletter source of the recipient, active or not; an unknown recipient
\* gets 406 and nothing happens.
WebhookStart ==
    /\ Len(polls) < limits.open
    /\ \E x \in { y \in db.sources : y.type = "newsletter" } :
         polls' = Append(polls, Session("webhook", db.now, << x.id >>))
    /\ UNCHANGED << run_no, other_task, refresh_tokens, requests, limits >>
    /\ UNCHANGED << tier, llm, collecting, db, dedup_oracle, group_oracle, pc, stages,
                    articles, groups, merged_indices, start, attempts, phase1,
                    dedup_groups, all_groups, topic_groups, ranked, digest,
                    outcome, oracle_log >>

\* ArticleStore._fingerprint_exists over the rows the session sees, the
\* committed ones and its own: scalar_one_or_none() raises
\* MultipleResultsFound on two matching rows.
_fingerprint_exists(rows, source_id, fingerprint) ==
    LET found == { k \in 1..Len(rows) :
                     rows[k].source_id = source_id /\ rows[k].fingerprint = fingerprint }
    IN  [ raised |-> Cardinality(found) >= 2, result |-> Cardinality(found) = 1 ]

RemoveAt(s, p) == SubSeq(s, 1, p - 1) \o SubSeq(s, p + 1, Len(s))

\* The session after store_article returned for an entry: a mail is one
\* entry, a feed may have more.
EntryDone(s) ==
    [ s EXCEPT !.fingerprint = NULL,
               !.pc = IF s.kind = "webhook" THEN "commit" ELSE "batch" ]

IngestVars ==
    << tier, llm, collecting, db, dedup_oracle, group_oracle, pc, stages,
       articles, groups, merged_indices, start, attempts, phase1,
       dedup_groups, all_groups, topic_groups, ranked, digest,
       outcome, oracle_log, run_no, other_task, refresh_tokens, requests,
       limits >>

\* ArticleStore.store_article for the next entry of the feed or for the
\* mail, up to the result of its query: `return None` when the
\* (source_id, fingerprint) is stored, else the call goes on to insert;
\* when the query raises, the poll or the request ends and the session
\* closes without a commit.  MaxStored rows are stored.
StoreArticleSelect(p) ==
    /\ polls[p].pc = "batch"
    /\ \E fp \in 1..NumFingerprints :
         LET s == polls[p]
             found == _fingerprint_exists(db.articles \o s.rows, s.sources[1], fp)
         IN  /\ found.raised \/ found.result \/ Load(db, polls) < MaxStored
             /\ polls' = IF found.raised THEN RemoveAt(polls, p)
                         ELSE IF found.result THEN [ polls EXCEPT ![p] = EntryDone(s) ]
                         ELSE [ polls EXCEPT ![p].pc = "insert", ![p].fingerprint = fp ]
    /\ UNCHANGED IngestVars

\* The rest of store_article: the row is added and flushed with the
\* entry's publish time (None for a mail) and created_at = now() of the
\* transaction, whatever was committed since the query; the table has no
\* unique constraint on (source_id, fingerprint).
StoreArticleInsert(p) ==
    /\ polls[p].pc = "insert"
    /\ LET s == polls[p]
           fp == s.fingerprint
           published_at == IF s.kind = "webhook" THEN NULL ELSE FeedTime(fp)
           row == Article(NULL, s.sources[1], <<"ai">>, ContentAt(fp),
                          published_at, s.now, fp)
       IN  polls' = [ polls EXCEPT ![p] = EntryDone([ s EXCEPT !.rows = Append(@, row) ]) ]
    /\ UNCHANGED IngestVars

\* Whether an open session other than p has updated the source's row and
\* so holds its lock.
LockedByOther(p, source_id) ==
    \E q \in 1..Len(polls) : q # p /\ source_id \in polls[q].touched

\* ingest_rss_source and ingest_reddit_source after store_batch: the flush
\* of source.last_fetched_at, which waits for the row's lock; then the next
\* source.
PollTouch(p) ==
    /\ polls[p].kind = "poll" /\ polls[p].pc = "batch"
    /\ ~LockedByOther(p, polls[p].sources[1])
    /\ LET s == polls[p]
           sources == Tail(s.sources)
       IN  polls' = [ polls EXCEPT ![p] =
                        [ s EXCEPT !.touched = @ \cup { s.sources[1] },
                                   !.sources = sources,
                                   !.pc = IF sources = <<>> THEN "commit" ELSE "batch" ] ]
    /\ UNCHANGED IngestVars

\* Two polls each wait for a source the other one updated: the database
\* ends one of them with an error and its session closes without a commit.
PollDeadlock(p) ==
    /\ polls[p].kind = "poll" /\ polls[p].pc = "batch"
    /\ \E q \in 1..Len(polls) :
         /\ q # p /\ polls[q].kind = "poll" /\ polls[q].pc = "batch"
         /\ polls[p].sources[1] \in polls[q].touched
         /\ polls[q].sources[1] \in polls[p].touched
    /\ polls' = RemoveAt(polls, p)
    /\ UNCHANGED IngestVars

\* The rows as the table holds them, with their keys.
Stored(d, rows) ==
    d.articles \o [ k \in 1..Len(rows) |-> [ rows[k] EXCEPT !.id = Len(d.articles) + k ] ]

\* `await db.commit()` of _poll_all_feeds or of inbound_email.
IngestCommit(p) ==
    /\ polls[p].pc = "commit"
    /\ db' = [ db EXCEPT !.articles = Stored(db, polls[p].rows) ]
    /\ polls' = RemoveAt(polls, p)
    /\ UNCHANGED << run_no, other_task, refresh_tokens, requests, limits >>
    /\ UNCHANGED << tier, llm, collecting, dedup_oracle, group_oracle, pc, stages, articles,
                    groups, merged_indices, start, attempts, phase1,
                    dedup_groups, all_groups, topic_groups, ranked, digest,
                    outcome, oracle_log >>

\* ------------------------------------------- the routes that change tables
Users == { RunUser, OtherUser }

TablesOnly ==
    << tier, llm, collecting, dedup_oracle, group_oracle, pc, stages, articles, groups,
       merged_indices, start, attempts, phase1, dedup_groups, all_groups,
       topic_groups, ranked, digest, outcome, oracle_log, run_no, other_task,
       polls, refresh_tokens, requests, limits >>

\* How far the routes have taken the sources and interactions from the
\* first tables: rows added, sources not active.
Changes(d) ==
    Cardinality(d.sources) - Cardinality(Database(<<>>).sources)
    + Cardinality({ x \in d.sources : ~x.is_active })
    + Len(d.interactions)

\* routes/sources.create_source, SourceStore.create: a new source of the
\* user, active by the column's default.
CreateSource ==
    /\ Changes(db) < limits.changes
    /\ \E u \in Users : \E type \in SourceTypes :
         db' = [ db EXCEPT !.sources =
                   @ \cup { SourceOfType(Cardinality(@) + 1, u, type, TRUE) } ]
    /\ UNCHANGED TablesOnly

SetActive(sources, id, is_active) ==
    { IF x.id = id THEN [ x EXCEPT !.is_active = is_active ] ELSE x : x \in sources }

\* Whether an open session has updated the source's row: an update of the
\* row by a route waits for that session to end.
Locked(source_id) == \E q \in 1..Len(polls) : source_id \in polls[q].touched

\* routes/sources.update_source, SourceStore.update with is_active given,
\* by the source's owner; the flush updates the row when the value changes.
UpdateSource ==
    /\ \E x \in db.sources : \E is_active \in BOOLEAN :
         /\ ~is_active /\ x.is_active => Changes(db) < limits.changes
         /\ is_active # x.is_active => ~Locked(x.id)
         /\ db' = [ db EXCEPT !.sources = SetActive(@, x.id, is_active) ]
    /\ UNCHANGED TablesOnly

\* routes/sources.delete_source, SourceStore.delete, by the source's owner:
\* the row stays, inactive.
DeleteSource ==
    /\ \E x \in db.sources :
         /\ x.is_active => Changes(db) < limits.changes /\ ~Locked(x.id)
         /\ db' = [ db EXCEPT !.sources = SetActive(@, x.id, FALSE) ]
    /\ UNCHANGED TablesOnly

\* routes/digests.create_interaction about a stored article, of any type.
CreateInteraction ==
    /\ Changes(db) < limits.changes
    /\ \E u \in Users : \E a \in Range(db.articles) :
       \E k \in 1..Len(InteractionTypes) :
         db' = [ db EXCEPT !.interactions =
                   Append(@, UserInteraction(u, a.id, InteractionTypes[k])) ]
    /\ UNCHANGED TablesOnly

\* --------------------------------------- a task beside the user's task
\* The oracle's methods as the stages see them: the result of one call of
\* find_semantic_duplicates on an LLMService (attempts until one parses or
\* attempt == max_retries, then the empty result) or on a stub, and what is
\* left of the scripted outcomes.
RECURSIVE find_semantic_duplicates(_, _, _)
find_semantic_duplicates(l, script, attempt) ==
    LET o == NextOutcome(script)
    IN  IF l = "patched"
        THEN [ raised |-> o.kind # "ok", result |-> o.groups, rest |-> Rest(script) ]
        ELSE IF o.kind = "ok"
        THEN [ raised |-> FALSE, result |-> dedup_parse(o.groups), rest |-> Rest(script) ]
        ELSE IF is_last_attempt(attempt)
        THEN [ raised |-> FALSE, result |-> <<>>, rest |-> Rest(script) ]
        ELSE find_semantic_duplicates(l, Rest(script), attempt + 1)

\* The loop of DedupStage._semantic_dedup from the batch at start_ on, and
\* the list it returns.
RECURSIVE _semantic_dedup_batches(_, _, _, _)
_semantic_dedup_batches(st, start_, l, script) ==
    IF start_ >= Len(st.groups)
    THEN [ err |-> FALSE, groups |-> final_groups(st.groups, st.merged) ]
    ELSE LET call == find_semantic_duplicates(l, script, 0)
             after == _semantic_dedup_batch(st, start_, call.raised, call.result)
         IN  IF after.err THEN [ err |-> TRUE, groups |-> <<>> ]
             ELSE _semantic_dedup_batches(after, start_ + DEDUP_BATCH_SIZE, l,
                                          call.rest)

\* DedupStage._semantic_dedup: `if len(primaries) <= 1: return groups`,
\* then the batches.
_semantic_dedup(fp_groups, l, script) ==
    IF Len(fp_groups) <= 1
    THEN [ err |-> FALSE, groups |-> fp_groups ]
    ELSE _semantic_dedup_batches([ groups |-> fp_groups, merged |-> {}, err |-> FALSE ],
                                 0, l, script)

\* DedupStage.dedup.
DedupStage_dedup(arts, t, l, script) ==
    IF arts = <<>> THEN [ err |-> FALSE, groups |-> <<>> ]
    ELSE LET fp_groups == _fingerprint_dedup(arts)
         IN  IF semantic_enabled(t, l)
             THEN _semantic_dedup(fp_groups, l, script)
             ELSE [ err |-> FALSE, groups |-> fp_groups ]

\* One call of group_and_summarize for a batch of n articles.
RECURSIVE group_and_summarize(_, _, _, _)
group_and_summarize(l, script, n, attempt) ==
    LET o == NextOutcome(script)
    IN  IF l = "patched"
        THEN [ raised |-> ~Answered(o), result |-> GroupAnswer(o, n),
               rest |-> Rest(script) ]
        ELSE IF Answered(o)
        THEN [ raised |-> FALSE, result |-> GroupAnswer(o, n), rest |-> Rest(script) ]
        ELSE IF is_last_attempt(attempt)
        THEN [ raised |-> FALSE, result |-> <<>>, rest |-> Rest(script) ]
        ELSE group_and_summarize(l, Rest(script), n, attempt + 1)

\* GroupStage._llm_group from the batch at start_ on.
RECURSIVE _llm_group(_, _, _, _, _)
_llm_group(acc_groups, primaries, start_, l, script) ==
    IF start_ >= Len(primaries)
    THEN [ status |-> "ok", groups |-> acc_groups ]
    ELSE LET batch == Batch(primaries, start_, GROUP_BATCH_SIZE)
             call == group_and_summarize(l, script, Len(batch), 0)
             step == _llm_group_batch(acc_groups, batch, call.raised, call.result)
         IN  IF step.status # "ok" THEN step
             ELSE _llm_group(step.groups, primaries, start_ + GROUP_BATCH_SIZE, l,
                             call.rest)

\* GroupStage.group: nothing to group gives []; `if result:` leaves None
\* and [] of _llm_group to TF-IDF.
GroupStage_group(dgs, t, l, script) ==
    IF dgs = <<>> THEN [ err |-> FALSE, groups |-> <<>> ]
    ELSE LET primaries == Primaries(dgs)
             result == _llm_group(<<>>, primaries, 0, l, script)
         IN  IF ~llm_grouping_enabled(t, l)
             THEN [ err |-> FALSE, groups |-> _tfidf_group(primaries) ]
             ELSE IF result.status = "error" THEN [ err |-> TRUE, groups |-> <<>> ]
             ELSE IF result.status = "none" \/ result.groups = <<>>
             THEN [ err |-> FALSE, groups |-> _tfidf_group(primaries) ]
             ELSE [ err |-> FALSE, groups |-> result.groups ]

\* _generate_for_user: `LLMService() if user.tier.value == "paid" else None`.
task_llm(t) == IF t = "paid" THEN "service" ELSE "none"

\* A generate_user_digest task of user_id at its start, with the outcomes
\* the oracle will give to its dedup calls and to its grouping calls.
Task(user_id, t, ds, gs) ==
    [ NoTask EXCEPT !.pc = "collect", !.user_id = user_id, !.tier = t,
                    !.llm = task_llm(t), !.dedup_oracle = ds,
                    !.group_oracle = gs, !.outcome = "running" ]

RunVars ==
    << tier, llm, collecting, dedup_oracle, group_oracle, pc, stages, articles, groups,
       merged_indices, start, attempts, phase1, dedup_groups, all_groups,
       topic_groups, ranked, digest, outcome, oracle_log, run_no, polls,
       refresh_tokens, requests, limits >>

\* generate_user_digest enqueued for the user while a task of the user may
\* be running (check_digest_schedule every minute, the admin route):
\* _generate_for_user takes no lock.  The task has its own session,
\* Orchestrator and stage objects, and the same database.
OverlapStart ==
    /\ pc # "closed" /\ other_task.pc = "closed"
    /\ run_no < limits.runs
    /\ run_no' = run_no + 1
    /\ other_task' = Task(RunUser, tier, <<>>, <<>>)
    /\ UNCHANGED << tier, llm, collecting, db, dedup_oracle, group_oracle, pc, stages,
                    articles, groups, merged_indices, start, attempts, phase1,
                    dedup_groups, all_groups, topic_groups, ranked, digest,
                    outcome, oracle_log, polls, refresh_tokens, requests,
                    limits >>

\* The three queries of the task's collect, one at a time.
OtherCollectLastDigest ==
    /\ other_task.pc = "collect"
    /\ other_task' = [ other_task EXCEPT
           !.last_digest = last_digest(db, other_task.user_id),
           !.pc = "collect_sources" ]
    /\ UNCHANGED db /\ UNCHANGED RunVars

OtherCollectSourceIds ==
    /\ other_task.pc = "collect_sources"
    /\ LET ids == source_ids(db, other_task.user_id)
       IN  other_task' = [ other_task EXCEPT
               !.source_ids = ids,
               !.pc = IF ids = {} THEN "done" ELSE "collect_articles",
               !.outcome = IF ids = {} THEN "none" ELSE @ ]
    /\ UNCHANGED db /\ UNCHANGED RunVars

OtherCollect ==
    /\ other_task.pc = "collect_articles"
    /\ \E result \in created_desc_orders(
                       collect_rows(db, other_task.source_ids, other_task.last_digest)) :
         other_task' = [ other_task EXCEPT
             !.articles = result,
             !.pc = IF result = <<>> THEN "done" ELSE "dedup",
             !.outcome = IF result = <<>> THEN "none" ELSE @ ]
    /\ UNCHANGED db /\ UNCHANGED RunVars

\* Stage 2 of the task, its oracle calls included: they read and write the
\* task's own objects only.
OtherDedup ==
    /\ other_task.pc = "dedup"
    /\ LET result == DedupStage_dedup(other_task.articles, other_task.tier,
                                      other_task.llm, other_task.dedup_oracle)
       IN  other_task' =
             IF result.err
             THEN [ other_task EXCEPT !.outcome = "error", !.pc = "done" ]
             ELSE IF result.groups = <<>>
             THEN [ other_task EXCEPT !.outcome = "none", !.pc = "done" ]
             ELSE [ other_task EXCEPT !.dedup_groups = result.groups, !.pc = "group" ]
    /\ UNCHANGED db /\ UNCHANGED RunVars

\* Stage 3 of the task, its oracle calls included.
OtherGroup ==
    /\ other_task.pc = "group"
    /\ LET result == GroupStage_group(other_task.dedup_groups, other_task.tier,
                                      other_task.llm, other_task.group_oracle)
       IN  other_task' =
             IF result.err
             THEN [ other_task EXCEPT !.outcome = "error", !.pc = "done" ]
             ELSE IF result.groups = <<>>
             THEN [ other_task EXCEPT !.outcome = "none", !.pc = "done" ]
             ELSE [ other_task EXCEPT !.topic_groups = result.groups, !.pc = "rank" ]
    /\ UNCHANGED db /\ UNCHANGED RunVars

OtherRank ==
    /\ other_task.pc = "rank"
    /\ other_task' = [ other_task EXCEPT
           !.ranked = rank(other_task.topic_groups, other_task.tier,
                           user_interactions(db, other_task.user_id)),
           !.pc = "build" ]
    /\ UNCHANGED db /\ UNCHANGED RunVars

\* The task reads the clock and adds its Digest to its session.
OtherBuild ==
    /\ other_task.pc = "build"
    /\ other_task' = [ other_task EXCEPT
           !.digest = build_digest(<<>>, other_task.user_id, other_task.tier, db.now),
           !.pc = "flush" ]
    /\ UNCHANGED db /\ UNCHANGED RunVars

\* The task's flush of its Digest row, then of its groups and items.
OtherFlush ==
    /\ other_task.pc = "flush"
    /\ ~flushed_by(pc, outcome, digest, other_task.user_id, other_task.digest.date)
    /\ other_task' =
         IF uq_digest_user_date(db, other_task.user_id, other_task.digest.date)
         THEN [ other_task EXCEPT
                  !.digest = build_digest(other_task.ranked, other_task.user_id,
                                          other_task.tier,
                                          other_task.digest.generated_at),
                  !.outcome = "digest", !.pc = "done" ]
         ELSE [ other_task EXCEPT !.digest = NoDigest, !.outcome = "error",
                                  !.pc = "done" ]
    /\ UNCHANGED db /\ UNCHANGED RunVars

OtherFinish ==
    /\ other_task.pc = "done"
    /\ other_task' = [ other_task EXCEPT !.pc = "closed" ]
    /\ db' = IF task_commits(other_task.outcome)
             THEN [ db EXCEPT !.digests = Append(@, other_task.digest) ]
             ELSE db
    /\ UNCHANGED RunVars

OtherNext ==
    \/ OtherCollectLastDigest \/ OtherCollectSourceIds \/ OtherCollect
    \/ OtherDedup \/ OtherGroup \/ OtherRank \/ OtherBuild \/ OtherFlush
    \/ OtherFinish

\* ------------------------------------ the user's tasks, feeds and routes
\* The oracle of a paid user's tasks is down.
\* The behaviours, one family at a time: two tasks of the user, one after the
\* other or overlapping, around a midnight or within a day, with one poll or
\* webhook at a time; one task with sessions open together; one task with
\* the routes; sessions open together with the routes.
Families ==
    { Limits(MaxRuns, 1, 0, 0, 1),
      Limits(MaxRuns, 1, 0, MaxTicks, 0),
      Limits(1, MaxOpen, 0, MaxTicks, 0),
      Limits(1, 1, MaxChanges, 0, 0),
      Limits(0, MaxOpen, MaxChanges, 0, 0) }

\* Before the user's first task: nothing stored, no session open.
InitFamily(t, family) ==
    /\ limits = family
    /\ tier = t /\ llm = task_llm(t) /\ db = Database(<<>>)
    /\ dedup_oracle = <<>> /\ group_oracle = <<>>
    /\ pc = "closed" /\ stages = <<>> /\ articles = <<>>
    /\ collecting = NotRead
    /\ groups = <<>> /\ merged_indices = {} /\ start = 0 /\ attempts = <<>>
    /\ phase1 = <<>> /\ dedup_groups = <<>> /\ all_groups = <<>>
    /\ topic_groups = <<>> /\ ranked = <<>> /\ digest = NoDigest
    /\ outcome = "none" /\ oracle_log = <<>>
    /\ run_no = 0 /\ other_task = NoTask /\ polls = <<>>
    /\ refresh_tokens = <<>> /\ requests = <<>>

InitRuns ==
    \E t \in { "free", "paid" } : \E family \in Families : InitFamily(t, family)

\* The steps of a task's generate: its llm is an LLMService or None.
TaskNext ==
    \/ CollectLastDigest \/ CollectSourceIds \/ Collect
    \/ DedupStart \/ DedupAttempt \/ GroupStart \/ GroupAttempt
    \/ Rank \/ Build \/ Flush

NextRuns ==
    \/ TaskNext \/ TaskFinish \/ TaskStart \/ Midnight
    \/ OverlapStart \/ OtherNext
    \/ Tick
    \/ PollStart \/ WebhookStart
    \/ \E p \in 1..Len(polls) : StoreArticleSelect(p)
    \/ \E p \in 1..Len(polls) : StoreArticleInsert(p)
    \/ \E p \in 1..Len(polls) : PollTouch(p)
    \/ \E p \in 1..Len(polls) : PollDeadlock(p)
    \/ \E p \in 1..Len(polls) : IngestCommit(p)
    \/ CreateSource \/ UpdateSource \/ DeleteSource \/ CreateInteraction

SpecRuns == InitRuns /\ [][NextRuns]_vars

\* ------------------------------------------- the task of another user
\* Sources of both users, each an active and an inactive one.
UserSources == CollectSources \cup { Source(4, OtherUser, FALSE) }

\* What the oracle gives to the other user's task: nothing, or an answer
\* to the first call.
OtherDedupScripts == { <<>>, << Ok(<< <<0, 1>> >>) >> }

OtherGroupScripts == { <<>>, << [ kind |-> "one_group", groups |-> <<>> ] >> }

\* Articles of any of the four sources; the other user with or without an
\* earlier digest, of either tier; records of both users about article 1.
InitUsers ==
    \E n \in 1..MaxArticles : \E src \in [ 1..n -> 1..4 ] :
    \E ds \in { <<>>, << EarlierDigest(OtherUser, 2) >> } :
    \E cfg \in { <<"free", "none">>, <<"paid", "service">>, <<"paid", "patched">> } :
    \E ot \in { "free", "paid" } :
    \E ods \in OtherDedupScripts : \E ogs \in OtherGroupScripts :
        /\ ot = "free" => ods = <<>> /\ ogs = <<>>
        /\ limits = Widest
        /\ InitRunBeside(
            [ articles |-> [ i \in 1..n |->
                  Article(i, src[i], <<"ai">>, ContentAt(i), NULL, i, i) ],
              sources |-> UserSources, digests |-> ds,
              interactions |-> << UserInteraction(OtherUser, 1, "saved"),
                                  UserInteraction(RunUser, 1, "dismissed") >>,
              now |-> 100 ],
            cfg[1], cfg[2], <<>>, <<>>,
            Task(OtherUser, ot, ods, ogs))

NextUsers == Next \/ TaskFinish \/ OtherNext

SpecUsers == InitUsers /\ [][NextUsers]_vars

\* ------------------------------------------------ AuthService requests
\* A row of refresh_tokens; tokens are numbered in the order they are issued.
RefreshToken(user_id, token, revoked) ==
    [ user_id |-> user_id, token |-> token, revoked |-> revoked ]

\* A /refresh or /logout request in its own session: at "select" before the
\* query, at "commit" with the row it found, "done" with its response.
Request(kind, token) ==
    [ kind |-> kind, token |-> token, pc |-> "select", stored |-> 0,
      response |-> "none", issued |-> 0 ]

PipelineVars ==
    << tier, llm, collecting, db, dedup_oracle, group_oracle, pc, stages, articles, groups,
       merged_indices, start, attempts, phase1, dedup_groups, all_groups,
       topic_groups, ranked, digest, outcome, oracle_log, run_no, other_task,
       polls, limits >>

\* A client sends a request with a refresh token it was given at some time.
Arrive ==
    /\ Len(requests) < MaxRequests
    /\ \E kind \in { "refresh", "logout" } : \E k \in 1..Len(refresh_tokens) :
         requests' = Append(requests, Request(kind, refresh_tokens[k].token))
    /\ UNCHANGED refresh_tokens /\ UNCHANGED PipelineVars

\* A /login or /register request that succeeded, with the token it issued.
Issued(kind, token) ==
    [ Request(kind, NULL) EXCEPT !.pc = "done", !.response = "ok", !.issued = token ]

\* AuthService.login with the password of a registered user: the row of a
\* new refresh token is added and committed; the user's other tokens stay.
Login ==
    /\ Len(requests) < MaxRequests
    /\ \E u \in { x.user_id : x \in Range(refresh_tokens) } :
         LET new_refresh == Len(refresh_tokens) + 1
         IN  /\ refresh_tokens' = Append(refresh_tokens, RefreshToken(u, new_refresh, FALSE))
             /\ requests' = Append(requests, Issued("login", new_refresh))
    /\ UNCHANGED PipelineVars

\* AuthService.register with an email no user has: the user is added, and
\* the row of the user's first refresh token, and committed.
Register ==
    /\ Len(requests) < MaxRequests
    /\ LET u == OtherUser
           new_refresh == Len(refresh_tokens) + 1
       IN  /\ u \notin { x.user_id : x \in Range(refresh_tokens) }
           /\ refresh_tokens' = Append(refresh_tokens, RefreshToken(u, new_refresh, FALSE))
           /\ requests' = Append(requests, Issued("register", new_refresh))
    /\ UNCHANGED PipelineVars

\* select(RefreshToken).where(token_hash == token_h, revoked_at IS NULL):
\* the row's position, 0 for no row.
unrevoked_row(table, token) ==
    IF \E k \in 1..Len(table) : table[k].token = token /\ ~table[k].revoked
    THEN CHOOSE k \in 1..Len(table) : table[k].token = token /\ ~table[k].revoked
    ELSE 0

\* refresh and logout up to the query's result: refresh raises 401 when no
\* row is found, logout answers ok.
Select(r) ==
    /\ requests[r].pc = "select"
    /\ LET found == unrevoked_row(refresh_tokens, requests[r].token)
       IN  requests' = [ requests EXCEPT ![r] =
               IF found # 0 THEN [ @ EXCEPT !.stored = found, !.pc = "commit" ]
               ELSE [ @ EXCEPT !.pc = "done",
                               !.response = IF requests[r].kind = "refresh"
                                           THEN "401" ELSE "ok" ] ]
    /\ UNCHANGED refresh_tokens /\ UNCHANGED PipelineVars

\* The rest of refresh and logout: stored.revoked_at is set, refresh adds
\* the row of the new token for stored.user_id, commit.
Commit(r) ==
    /\ requests[r].pc = "commit"
    /\ LET stored == refresh_tokens[requests[r].stored]
           revoked == [ refresh_tokens EXCEPT ![requests[r].stored].revoked = TRUE ]
           new_refresh == Len(refresh_tokens) + 1
       IN  IF requests[r].kind = "refresh"
           THEN /\ refresh_tokens' = Append(revoked,
                                            RefreshToken(stored.user_id, new_refresh, FALSE))
                /\ requests' = [ requests EXCEPT ![r].pc = "done", ![r].response = "ok",
                                                 ![r].issued = new_refresh ]
           ELSE /\ refresh_tokens' = revoked
                /\ requests' = [ requests EXCEPT ![r].pc = "done", ![r].response = "ok" ]
    /\ UNCHANGED PipelineVars

\* After the user's registration: one unrevoked refresh token, no request,
\* no digest task.
InitAuth ==
    /\ refresh_tokens = << RefreshToken(RunUser, 1, FALSE) >>
    /\ requests = <<>>
    /\ tier = "free" /\ llm = "none" /\ db = Database(<<>>)
    /\ dedup_oracle = <<>> /\ group_oracle = <<>>
    /\ pc = "closed" /\ stages = <<>> /\ articles = <<>>
    /\ collecting = NotRead
    /\ groups = <<>> /\ merged_indices = {} /\ start = 0 /\ attempts = <<>>
    /\ phase1 = <<>> /\ dedup_groups = <<>> /\ all_groups = <<>>
    /\ topic_groups = <<>> /\ ranked = <<>> /\ digest = NoDigest
    /\ outcome = "none" /\ oracle_log = <<>>
    /\ run_no = 0 /\ other_task = NoTask /\ polls = <<>>
    /\ limits = Widest

NextAuth ==
    \/ Arrive \/ Login \/ Register
    \/ \E r \in 1..Len(requests) : Select(r)
    \/ \E r \in 1..Len(requests) : Commit(r)

SpecAuth == InitAuth /\ [][NextAuth]_vars

\* ------------------------------------------------------------ properties

Ids(arts) == [ i \in 1..Len(arts) |-> arts[i].id ]

\* The ids held by each cluster / topic group / digest group, one sequence
\* of ids per group.
ClusterArticleIds(gs) ==
    [ k \in 1..Len(gs) |-> <<gs[k].primary.id>> \o Ids(gs[k].duplicates) ]

TopicArticleIds(tgs) == [ k \in 1..Len(tgs) |-> Ids(tgs[k].articles) ]

DigestItemIds(dgs) ==
    [ k \in 1..Len(dgs) |->
        [ i \in 1..Len(dgs[k].items) |-> dgs[k].items[i].article_id ] ]

\* How often x is held over all the groups, and every id held.
OccurrencesIn(idseqs, x) ==
    Cardinality(UNION { { <<k, p>> : p \in { q \in 1..Len(idseqs[k]) : idseqs[k][q] = x } } :
                        k \in 1..Len(idseqs) })

AllIds(idseqs) == UNION { Range(idseqs[k]) : k \in 1..Len(idseqs) }

\* dedup_stage.dedup / group_stage.group has returned to generate.
DedupReturned ==
    Len(stages) >= 2 /\ pc # "dedup_call" /\ ~(outcome = "error" /\ Len(stages) = 2)

GroupReturned ==
    Len(stages) >= 3 /\ pc # "group_call" /\ outcome # "error"

DedupCalls == { i \in 1..Len(oracle_log) : oracle_log[i].op = "dedup" }
GroupCalls == { i \in 1..Len(oracle_log) : oracle_log[i].op = "group" }

\* C1: the clusters DedupStage.dedup returns hold every input article
\* exactly once, in a primary or a duplicates list, and no other article,
\* whatever the oracle answered.
C1_DedupCoversInputOnce ==
    DedupReturned =>
        /\ \A a \in Range(articles) :
               OccurrencesIn(ClusterArticleIds(dedup_groups), a.id) = 1
        /\ AllIds(ClusterArticleIds(dedup_groups)) \subseteq Range(Ids(articles))

\* C2: in the TopicGroups GroupStage.group returns, every cluster primary is
\* a member of exactly one group, under either strategy.
C2_EveryPrimaryInOneGroup ==
    GroupReturned =>
        \A k \in 1..Len(dedup_groups) :
            OccurrencesIn(TopicArticleIds(topic_groups), dedup_groups[k].primary.id) = 1

\* C3: Phase 1 yields one cluster per distinct fingerprint of the input; its
\* primary is a member of longest content, the earliest in input order among
\* those of that length; its duplicates are the fingerprint's other members.
C3_Phase1Clusters ==
    Len(stages) >= 2 =>
        LET fps == { articles[i].fingerprint : i \in 1..Len(articles) }
        IN  /\ Len(phase1) = Cardinality(fps)
            /\ \A fp \in fps : \E k \in 1..Len(phase1) : phase1[k].primary.fingerprint = fp
            /\ \A k \in 1..Len(phase1) :
                 LET p == phase1[k].primary
                     members == { i \in 1..Len(articles) :
                                    articles[i].fingerprint = p.fingerprint }
                 IN  /\ \E i \in members :
                          /\ articles[i] = p
                          /\ \A j \in members :
                               /\ StrLen(articles[j].content_text) <= StrLen(p.content_text)
                               /\ StrLen(articles[j].content_text) = StrLen(p.content_text)
                                    => i <= j
                     /\ Range(phase1[k].duplicates) = { articles[j] : j \in members } \ {p}
                     /\ Len(phase1[k].duplicates) = Cardinality(members) - 1

\* A fingerprint shared by two articles of equal content length, next to a
\* cluster of another fingerprint.
C3_Witness ==
    /\ Len(stages) >= 2
    /\ Len(phase1) >= 2
    /\ \E k \in 1..Len(phase1) : \E d \in Range(phase1[k].duplicates) :
           StrLen(d.content_text) = StrLen(phase1[k].primary.content_text)

\* Every oracle call of the run so far raised, and every later one will.
OracleDown ==
    /\ tier = "paid" /\ llm # "none"
    /\ \A i \in 1..Len(oracle_log) : \A a \in Range(oracle_log[i].attempts) : a = "raise"
    /\ \A a \in Range(attempts) : a = "raise"
    /\ \A o \in Range(dedup_oracle) \cup Range(group_oracle) : o.kind = "raise"

\* C4: with an oracle that raises on every call, a paid run gets the Phase-1
\* clusters from dedup and the statistical groups from group, as without an
\* oracle, and generate does not raise.
C4_DegradesWhenOracleDown ==
    OracleDown =>
        /\ outcome # "error"
        /\ DedupReturned =>
             dedup_groups = phase1 /\ phase1 = _fingerprint_dedup(articles)
        /\ GroupReturned => topic_groups = _tfidf_group(Primaries(phase1))

C4_Witness ==
    /\ OracleDown
    /\ outcome = "digest"
    /\ DedupCalls # {} /\ GroupCalls # {}

GroupCallFailed(i) ==
    oracle_log[i].op = "group"
    /\ (oracle_log[i].raised \/ oracle_log[i].groups = <<>>)

\* C5: once the grouping call of any batch has failed or returned no groups,
\* GroupStage.group returns the statistical grouping of all primaries and
\* none of the groups built from earlier batches.
C5_AssistedGroupingAllOrNothing ==
    (GroupReturned /\ \E i \in 1..Len(oracle_log) : GroupCallFailed(i)) =>
        /\ topic_groups = _tfidf_group(Primaries(dedup_groups))
        /\ \A k \in 1..Len(topic_groups) : topic_groups[k].group_summary = NoSummary

\* The middle batch of three fails after the first succeeded.
C5_Witness ==
    /\ GroupReturned
    /\ Len(dedup_groups) > 2 * GROUP_BATCH_SIZE
    /\ \E i \in 2..Len(oracle_log) :
         /\ GroupCallFailed(i)
         /\ oracle_log[i].start = GROUP_BATCH_SIZE
         /\ oracle_log[i - 1].op = "group" /\ ~GroupCallFailed(i - 1)

\* The indices a logged answer names, and whether one lies outside the
\* batch it answers.
NamedIndices(e) ==
    IF e.op = "dedup"
    THEN UNION { Range(e.groups[g]) : g \in 1..Len(e.groups) }
    ELSE UNION { Range(e.groups[g].article_indices) : g \in 1..Len(e.groups) }

OutsideBatch(e) == ~e.raised /\ \E x \in NamedIndices(e) : x < 0 \/ x >= e.size

\* C6: an answer naming an index outside the submitted batch counts as an
\* oracle failure: no exception escapes, dedup returns the Phase-1 clusters,
\* group returns the statistical groups.
C6_MalformedAnswerFallsBack ==
    \A i \in 1..Len(oracle_log) :
        OutsideBatch(oracle_log[i]) =>
            /\ outcome # "error"
            /\ (oracle_log[i].op = "dedup" /\ DedupReturned) => dedup_groups = phase1
            /\ (oracle_log[i].op = "group" /\ GroupReturned) =>
                   topic_groups = _tfidf_group(Primaries(dedup_groups))

StageOrder == <<"collect", "dedup", "group", "rank">>

\* C7: the stages run in the order Collect, Dedup, Group, Rank, each at most
\* once; a run ends with no digest and no Digest record exactly when collect
\* returned nothing or dedup's output is empty, having run no later stage;
\* every other run goes through Group and Rank and returns a Digest.
C7_StagesInOrderAndOutcome ==
    /\ Len(stages) <= 4 /\ stages = SubSeq(StageOrder, 1, Len(stages))
    /\ pc = "done" =>
         IF articles = <<>>
         THEN outcome = "none" /\ stages = <<"collect">> /\ digest = NoDigest
         ELSE IF DedupReturned /\ dedup_groups = <<>>
         THEN outcome = "none" /\ stages = <<"collect", "dedup">> /\ digest = NoDigest
         ELSE outcome = "digest" /\ stages = StageOrder /\ digest # NoDigest

\* C8: the items of a returned Digest are exactly the primaries of the dedup
\* clusters, each the article of one item; no duplicate is an item.
C8_DigestItemsArePrimaries ==
    outcome = "digest" =>
        /\ \A k \in 1..Len(dedup_groups) :
               OccurrencesIn(DigestItemIds(digest.groups), dedup_groups[k].primary.id) = 1
        /\ AllIds(DigestItemIds(digest.groups)) \subseteq Range(Ids(Primaries(dedup_groups)))

\* The Phase-1 cluster (1-based) an index of a batch answer refers to.
ClusterAt(e, x) == PyIndex(e.start + x, Len(phase1)) + 1

AnsweredDedupCalls == { i \in DedupCalls : ~oracle_log[i].raised }

NamedClusters ==
    UNION { { ClusterAt(oracle_log[i], x) : x \in NamedIndices(oracle_log[i]) } :
            i \in AnsweredDedupCalls }

\* For every returned group of two or more: its first index's cluster is in
\* the output as lead, holding the primary and the Phase-1 duplicates of
\* every other index's cluster, none of which is in the output; clusters no
\* group names are in the output as Phase 1 made them.
MergedAsReturned ==
    /\ \A i \in AnsweredDedupCalls : \A g \in Range(oracle_log[i].groups) :
         Len(g) >= 2 =>
           \E m \in 1..Len(dedup_groups) :
             /\ dedup_groups[m].primary = phase1[ClusterAt(oracle_log[i], g[1])].primary
             /\ \A p \in 2..Len(g) :
                  LET other == phase1[ClusterAt(oracle_log[i], g[p])]
                  IN  /\ other.primary \in Range(dedup_groups[m].duplicates)
                      /\ Range(other.duplicates) \subseteq Range(dedup_groups[m].duplicates)
                      /\ \A m2 \in 1..Len(dedup_groups) :
                             dedup_groups[m2].primary # other.primary
    /\ \A k \in 1..Len(phase1) :
         k \notin NamedClusters => phase1[k] \in Range(dedup_groups)

\* C9 as stated: the merge holds for each group the oracle returned.
C9_MergePerReturnedGroup == DedupReturned => MergedAsReturned

\* The answers name indices of their batch only, no index twice in a group
\* and no index in two groups.
DisjointAnswers ==
    \A i \in AnsweredDedupCalls :
        LET e == oracle_log[i]
        IN  /\ \A x \in NamedIndices(e) : x >= 0 /\ x < e.size
            /\ \A g \in 1..Len(e.groups) :
                 /\ Cardinality(Range(e.groups[g])) = Len(e.groups[g])
                 /\ \A h \in 1..Len(e.groups) :
                      g # h => Range(e.groups[g]) \cap Range(e.groups[h]) = {}

\* C9 amended: the merge holds for each returned group when the returned
\* groups are pairwise disjoint and name distinct indices of their batch.
C9_MergePerDisjointGroup == (DedupReturned /\ DisjointAnswers) => MergedAsReturned

\* A merged cluster brings Phase-1 duplicates of its own along.
C9_Witness ==
    /\ DedupReturned /\ DisjointAnswers
    /\ \E i \in AnsweredDedupCalls : \E g \in Range(oracle_log[i].groups) :
         /\ Len(g) >= 2
         /\ phase1[ClusterAt(oracle_log[i], g[2])].duplicates # <<>>

\* C10: a call of find_semantic_duplicates or group_and_summarize makes at
\* most max_retries + 1 attempts, none after one that succeeded, and after
\* max_retries + 1 failures returns the empty result without raising.
C10_BoundedRetries ==
    llm = "service" =>
        /\ Len(attempts) <= max_retries
        /\ \A a \in Range(attempts) : a # "ok"
        /\ \A i \in 1..Len(oracle_log) :
             LET e == oracle_log[i]
                 n == Len(e.attempts)
                 succeeded(a) == a \in { "ok", "each_own_group", "one_group" }
             IN  /\ n >= 1 /\ n <= max_retries + 1
                 /\ \A j \in 1..(n - 1) : ~succeeded(e.attempts[j])
                 /\ ~e.raised
                 /\ ~succeeded(e.attempts[n]) => n = max_retries + 1 /\ e.groups = <<>>

\* Both methods gave up after max_retries + 1 failed attempts in one run.
C10_Witness ==
    /\ llm = "service"
    /\ \E i \in DedupCalls : Len(oracle_log[i].attempts) = max_retries + 1
                             /\ oracle_log[i].attempts[max_retries + 1] # "ok"
    /\ \E i \in GroupCalls : Len(oracle_log[i].attempts) = max_retries + 1
                             /\ oracle_log[i].attempts[max_retries + 1] # "ok"

\* stage 2 is over: dedup_stage.dedup returned or raised.
DedupFinished == Len(stages) >= 2 /\ pc # "dedup_call"

\* The dedup calls that failed: the call raised, or its last attempt did.
FailedDedupCalls ==
    { i \in DedupCalls :
        oracle_log[i].raised
        \/ oracle_log[i].attempts[Len(oracle_log[i].attempts)] # "ok" }

BatchStarts(n, size) == { b * size : b \in 0..(Batches(n, size) - 1) }

\* The Phase-1 clusters (1-based) of the batch a logged call submitted.
BatchClusters(e) == (e.start + 1)..(e.start + e.size)

\* C11: when dedup runs over several batches and the call of one fails,
\* every batch is still submitted and dedup returns; the clusters of the
\* failed batch are in the output as Phase 1 made them; and for every group
\* of two or more that a succeeding call returned, the lead's cluster is in
\* the output holding the primaries of the group's other clusters.
C11_FailedBatchLeftAlone ==
    (DedupFinished /\ Len(phase1) > DEDUP_BATCH_SIZE /\ FailedDedupCalls # {}) =>
        /\ DedupReturned
        /\ { oracle_log[i].start : i \in DedupCalls }
             = BatchStarts(Len(phase1), DEDUP_BATCH_SIZE)
        /\ \A i \in FailedDedupCalls : \A k \in BatchClusters(oracle_log[i]) :
               phase1[k] \in Range(dedup_groups)
        /\ \A i \in DedupCalls \ FailedDedupCalls :
           \A g \in Range(oracle_log[i].groups) :
               Len(g) >= 2 =>
                 \E m \in 1..Len(dedup_groups) :
                   /\ dedup_groups[m].primary = phase1[ClusterAt(oracle_log[i], g[1])].primary
                   /\ \A p \in 2..Len(g) :
                        phase1[ClusterAt(oracle_log[i], g[p])].primary
                            \in Range(dedup_groups[m].duplicates)

\* C12: a free-tier run makes no oracle call, in dedup or in grouping, even
\* with an oracle configured; dedup returns the fingerprint clusters and
\* group returns the statistical groups.
C12_FreeTierNeverCallsOracle ==
    tier = "free" =>
        /\ oracle_log = <<>> /\ attempts = <<>>
        /\ pc \notin { "dedup_call", "group_call" }
        /\ DedupReturned => dedup_groups = _fingerprint_dedup(articles)
        /\ GroupReturned => topic_groups = _tfidf_group(Primaries(dedup_groups))

\* A free-tier run with a willing oracle and several clusters got its digest.
C12_Witness ==
    /\ tier = "free" /\ llm = "service"
    /\ dedup_oracle = WillingDedup /\ group_oracle = WillingGroup
    /\ Len(phase1) >= 2
    /\ outcome = "digest"

\* group_stage.group returned the statistical grouping: the assisted
\* strategy was not entered, or one of its calls failed.
StatisticalGrouping ==
    /\ GroupReturned
    /\ \/ ~llm_grouping_enabled(tier, llm)
       \/ \E i \in 1..Len(oracle_log) : GroupCallFailed(i)

\* The position (1-based) among the primaries given to group of article a.
DocOf(a) == CHOOSE i \in 1..Len(dedup_groups) : dedup_groups[i].primary.id = a.id

\* The documents that are members of the groups before group g.
TakenBefore(g) ==
    UNION { { DocOf(topic_groups[h].articles[m]) : m \in 1..Len(topic_groups[h].articles) } :
            h \in 1..(g - 1) }

\* C13: in the statistical grouping every group's first member is its seed,
\* the earliest document that no earlier group holds; a later document is a
\* member exactly when no earlier group holds it and it shares at least two
\* keywords with the seed, whatever it shares with other members; members
\* follow the seed in input order.
C13_GreedySeedOnly ==
    StatisticalGrouping =>
        LET kw == Keywords(Primaries(dedup_groups))
            n == Len(dedup_groups)
        IN  \A g \in 1..Len(topic_groups) :
              LET arts == topic_groups[g].articles
                  seed == DocOf(arts[1])
                  members == { DocOf(arts[m]) : m \in 1..Len(arts) }
              IN  /\ arts # <<>>
                  /\ \A i \in 1..(seed - 1) : i \in TakenBefore(g)
                  /\ seed \notin TakenBefore(g)
                  /\ \A j \in 1..n :
                       j \in members <=>
                         \/ j = seed
                         \/ /\ j > seed
                            /\ j \notin TakenBefore(g)
                            /\ Cardinality(kw[seed] \cap kw[j]) >= 2
                  /\ \A m \in 1..(Len(arts) - 1) : DocOf(arts[m]) < DocOf(arts[m + 1])

\* A document shares two keywords with a member of a group but fewer than
\* two with the group's seed, and is not in the group.
C13_Witness ==
    /\ StatisticalGrouping
    /\ LET kw == Keywords(Primaries(dedup_groups))
       IN  \E g \in 1..Len(topic_groups) : \E j \in 1..Len(dedup_groups) :
             LET arts == topic_groups[g].articles
                 seed == DocOf(arts[1])
             IN  /\ j > seed
                 /\ j \notin TakenBefore(g)
                 /\ Cardinality(kw[seed] \cap kw[j]) < 2
                 /\ \E m \in 2..Len(arts) :
                      Cardinality(kw[DocOf(arts[m])] \cap kw[j]) >= 2
                 /\ \A m \in 1..Len(arts) : DocOf(arts[m]) # j

\* C14: every TopicGroup that group returns has 0 <= primary_index < number
\* of members; in the statistical grouping primary_index is 0 and member 0
\* is the seed, the earliest document of the group.
C14_PrimaryIndexValid ==
    GroupReturned =>
        \A g \in 1..Len(topic_groups) :
            LET tg == topic_groups[g]
            IN  /\ tg.primary_index >= 0
                /\ tg.primary_index < Len(tg.articles)
                /\ StatisticalGrouping =>
                     /\ tg.primary_index = 0
                     /\ \A m \in 1..Len(tg.articles) :
                          DocOf(tg.articles[1]) <= DocOf(tg.articles[m])

\* rank_stage.rank has returned.
Ranked == Len(stages) = 4

\* The publish timestamp if present, the ingestion timestamp otherwise.
EffectiveTimestamp(a) ==
    IF a.published_at # NULL THEN a.published_at ELSE a.created_at

\* C15: after rank, for either tier, the members of every returned group are
\* ordered by effective timestamp, non-increasing, and are the members some
\* group had before.
C15_ItemsByRecency ==
    Ranked =>
        \A g \in 1..Len(ranked) :
            /\ \A m \in 1..(Len(ranked[g].articles) - 1) :
                 EffectiveTimestamp(ranked[g].articles[m])
                     >= EffectiveTimestamp(ranked[g].articles[m + 1])
            /\ \E h \in 1..Len(topic_groups) :
                 /\ Range(topic_groups[h].articles) = Range(ranked[g].articles)
                 /\ Len(topic_groups[h].articles) = Len(ranked[g].articles)

\* A group holds an article with a publish time and one without, and rank
\* changed the order of its members.
C15_Witness ==
    /\ Ranked
    /\ \E g \in 1..Len(ranked) :
         /\ \E a, b \in Range(ranked[g].articles) :
              a.published_at # NULL /\ b.published_at = NULL
         /\ \A h \in 1..Len(topic_groups) :
              topic_groups[h].articles # ranked[g].articles

\* A group without the order of its members.
GroupKey(tg) == [tg EXCEPT !.articles = Range(@)]

GroupKeys(tgs) == [ g \in 1..Len(tgs) |-> GroupKey(tgs[g]) ]

MemberCount(tg) == Len(tg.articles)

\* rank took _base_rank: the run is not paid-tier, or the user has no
\* interaction record.
BasePolicy == tier # "paid" \/ user_interactions(db, RunUser) = <<>>

\* ranked holds the groups of topic_groups ordered by val descending, the
\* groups of equal val in their topic_groups order.
StablyOrderedBy(val(_)) ==
    /\ Len(ranked) = Len(topic_groups)
    /\ \A g \in 1..(Len(ranked) - 1) : val(ranked[g]) >= val(ranked[g + 1])
    /\ \A v \in { val(topic_groups[g]) : g \in 1..Len(topic_groups) } :
         GroupKeys(SelectSeq(ranked, LAMBDA tg : val(tg) = v))
           = GroupKeys(SelectSeq(topic_groups, LAMBDA tg : val(tg) = v))

\* C16: under the base policy rank returns the groups by member count
\* descending, groups of equal member count in their input order.
C16_BaseOrder == (Ranked /\ BasePolicy) => StablyOrderedBy(MemberCount)

\* Under the base policy a smaller group preceded a larger one in the input
\* and two groups of equal member count are in the output.
C16_Witness ==
    /\ Ranked /\ BasePolicy
    /\ \E g \in 1..(Len(topic_groups) - 1) :
         Len(topic_groups[g].articles) < Len(topic_groups[g + 1].articles)
    /\ \E g \in 1..(Len(ranked) - 1) :
         /\ Len(ranked[g].articles) = Len(ranked[g + 1].articles)
         /\ ranked[g] # ranked[g + 1]

\* read=+1, tapped-through=+2, saved=+3, dismissed=-2.
Weights == [ read |-> 1, tapped_through |-> 2, saved |-> 3, dismissed |-> 0 - 2 ]

RECURSIVE SumOver(_, _)
SumOver(f, S) ==
    IF S = {} THEN 0
    ELSE LET x == CHOOSE y \in S : TRUE IN f[x] + SumOver(f, S \ {x})

\* The interaction records of the run's user for an article, as positions in
\* the interactions table, and the article's affinity.
RecordsFor(id) ==
    { i \in 1..Len(db.interactions) :
        db.interactions[i].user_id = RunUser /\ db.interactions[i].article_id = id }

Affinity(id) ==
    SumOver([ i \in RecordsFor(id) |-> Weights[db.interactions[i].type] ], RecordsFor(id))

\* Twice the score of a group: member_count + 0.5 * (sum of affinities).
TwiceScore(tg) ==
    2 * Len(tg.articles)
    + SumOver([ m \in 1..Len(tg.articles) |-> Affinity(tg.articles[m].id) ],
              1..Len(tg.articles))

\* C17: under the personalized policy rank returns the groups by score
\* descending, the score of a group being its member count plus half the
\* summed affinities of its members, an affinity the sum of read=+1,
\* tapped-through=+2, saved=+3, dismissed=-2 over the user's records for
\* the article; groups of equal score keep their input order.
C17_PersonalizedOrder == (Ranked /\ ~BasePolicy) => StablyOrderedBy(TwiceScore)

\* An article with two records lifts its group over a larger one.
C17_Witness ==
    /\ Ranked /\ ~BasePolicy
    /\ \E g \in 1..(Len(ranked) - 1) :
         /\ Len(ranked[g].articles) < Len(ranked[g + 1].articles)
         /\ \E a \in Range(ranked[g].articles) : Cardinality(RecordsFor(a.id)) >= 2

\* The groups as rank orders their members, in input order.
ItemSorted == [ g \in 1..Len(topic_groups) |-> sort_items(topic_groups[g]) ]

HasHistory == \E i \in 1..Len(db.interactions) : db.interactions[i].user_id = RunUser

\* C18: every free-tier run, and a paid-tier run whose user has no
\* interaction record, gets the base-policy order; so the personalized
\* policy is only used for a paid-tier user with a record.
C18_PersonalizedOnlyPaidWithHistory ==
    (Ranked /\ (tier = "free" \/ ~HasHistory)) => ranked = _base_rank(ItemSorted)

\* A free-tier user whose history would have changed the order.
C18_Witness ==
    /\ Ranked /\ tier = "free" /\ HasHistory
    /\ _personalized_rank(ItemSorted, user_interactions(db, RunUser)) # ranked

\* C19: the Digest has one group record per ranked TopicGroup, in rank
\* order with sort_order 0, 1, ..., n-1, and in each one item record per
\* ranked member, in member order with sort_order its position.
C19_SortOrderIsRankPosition ==
    outcome = "digest" =>
        /\ Len(digest.groups) = Len(ranked)
        /\ \A p \in 1..Len(ranked) :
             LET dg == digest.groups[p]
             IN  /\ dg.sort_order = p - 1
                 /\ dg.topic_label = ranked[p].topic_label
                 /\ Len(dg.items) = Len(ranked[p].articles)
                 /\ \A m \in 1..Len(dg.items) :
                      /\ dg.items[m].sort_order = m - 1
                      /\ dg.items[m].article_id = ranked[p].articles[m].id

\* A Digest of several groups, one of them with several items.
C19_Witness ==
    /\ outcome = "digest"
    /\ Len(digest.groups) >= 2
    /\ \E p \in 1..Len(digest.groups) : Len(digest.groups[p].items) >= 2

\* C20: in the Digest an item is flagged primary exactly when its position
\* in the ranked member list is the group's primary_index, and every digest
\* group has exactly one primary item.
C20_OnePrimaryPerGroup ==
    outcome = "digest" =>
        \A p \in 1..Len(digest.groups) :
            LET dg == digest.groups[p]
            IN  /\ \A m \in 1..Len(dg.items) :
                     dg.items[m].is_primary <=> (m - 1 = ranked[p].primary_index)
                /\ Cardinality({ m \in 1..Len(dg.items) : dg.items[m].is_primary }) = 1

\* ------------------------------------------------------------ C21
\* The positions of a run inside collect, and whether collect has returned.
CollectPcs == { "collect", "collect_sources", "collect_articles" }

Collected == Len(stages) >= 1 /\ pc \notin CollectPcs

UserDigests == { k \in 1..Len(db.digests) : db.digests[k].user_id = RunUser }

ActiveSourceIds ==
    { x.id : x \in { y \in db.sources : y.user_id = RunUser /\ y.is_active } }

\* The articles of the user's active sources whose effective timestamp is
\* after every digest of the user.
Qualifying ==
    { a \in Range(db.articles) :
        /\ a.source_id \in ActiveSourceIds
        /\ \A k \in UserDigests : EffectiveTimestamp(a) > db.digests[k].generated_at }

\* C21: collect returns exactly, each once, the articles of the user's
\* active sources whose publish timestamp (ingestion timestamp when there is
\* none) is strictly after generated_at of the user's most recent digest,
\* all of them when the user has no digest; with nothing qualifying the run
\* ends with the empty list and without an error; the step changes no table.
C21_CollectContract ==
    /\ [](Collected =>
            /\ Range(articles) = Qualifying
            /\ Len(articles) = Cardinality(Qualifying)
            /\ (stages = <<"collect">> => outcome # "error")
            /\ (Qualifying = {} => outcome = "none" /\ stages = <<"collect">>))
    /\ [][(pc \in CollectPcs) => db' = db]_vars

\* A run of a user with earlier digests collected an article by its
\* ingestion time and left out one published at the last digest's time, one
\* of an inactive source and one of another user's source.
C21_Witness ==
    /\ Collected
    /\ Cardinality(UserDigests) >= 2
    /\ \E a \in Range(articles) : a.published_at = NULL
    /\ \/ \E a \in Range(db.articles) :
            a.published_at # NULL /\ a.published_at = last_digest(db, RunUser)
       \/ /\ \E a \in Range(db.articles) : a.source_id = 2
          /\ \E a \in Range(db.articles) : a.source_id = 3

\* ------------------------------------------------------------ C22
DigestArticleIds(dg) == AllIds(DigestItemIds(dg.groups))

\* C22: across the runs of the user's tasks, interleaved with ingestion, no
\* article is an item of two different committed digests of the user.
C22_NoArticleInTwoDigests ==
    \A i, j \in UserDigests :
        i # j => DigestArticleIds(db.digests[i]) \cap DigestArticleIds(db.digests[j]) = {}

\* ------------------------------------------------------------ C24
\* The last step of a task: its session closes.
Closes == pc = "done" /\ pc' = "closed"

OtherCloses == other_task.pc = "done" /\ other_task'.pc = "closed"

\* C24: no step of generate changes the committed digests: they change
\* only in the last step of a task whose generate returned a Digest, which
\* adds that Digest to them; the last step of a task whose generate returned
\* None or raised leaves them alone.
C24_OnlyTheTaskCommits ==
    [][ /\ (db'.digests # db.digests
              => \/ Closes /\ outcome = "digest"
                    /\ db'.digests = Append(db.digests, digest)
                 \/ OtherCloses /\ other_task.outcome = "digest"
                    /\ db'.digests = Append(db.digests, other_task.digest))
        /\ (Closes /\ outcome = "digest"
              => db'.digests = Append(db.digests, digest))
        /\ (OtherCloses /\ other_task.outcome = "digest"
              => db'.digests = Append(db.digests, other_task.digest)) ]_vars

\* The first task committed its Digest; the second one flushed its Digest row
\* and the unique constraint refused it, or it found nothing, and its session
\* closed with the committed digests as they were.
C24_Witness ==
    /\ run_no = 2 /\ pc = "closed" /\ other_task = NoTask
    /\ outcome \in { "none", "error" }
    /\ Len(db.digests) = 1 /\ Len(db.digests[1].groups) >= 1

\* ------------------------------------------------------------ C29
\* C29: the collect of a user who has a digest returns every article of an
\* active source of the user that was ingested after that digest was
\* generated, whatever its publish timestamp: every stored article of a
\* source collect read as active that was ingested after the digest time
\* collect read is in what its article query returns.
C29_IngestedSinceLastDigestCollected ==
    [][ pc = "collect_articles" /\ pc' # "collect_articles" =>
          \A a \in Range(db.articles) :
              ( /\ a.source_id \in collecting.source_ids
                /\ collecting.last_digest # NULL
                /\ a.created_at > collecting.last_digest )
              => a \in Range(articles') ]_vars

\* ------------------------------------------------------------ C23
NoSummaries(gs) ==
    \A g \in 1..Len(gs) :
        gs[g].group_summary = NoSummary /\ gs[g].article_summaries = EmptyDict

\* C23: when the statistical strategy produced the grouping (the assisted
\* one was not entered, or it fell back), no TopicGroup carries a group
\* summary or a member summary, before and after ranking, and every group
\* and every item of the Digest has a null summary.
C23_StatisticalGroupsHaveNoSummaries ==
    StatisticalGrouping =>
        /\ NoSummaries(topic_groups)
        /\ NoSummaries(ranked)
        /\ \A p \in 1..Len(digest.groups) :
              /\ digest.groups[p].summary = NoSummary
              /\ \A m \in 1..Len(digest.groups[p].items) :
                    digest.groups[p].items[m].ai_summary = NoSummary

\* A paid run whose oracle grouped one batch with summaries and failed on a
\* later one got its digest from the statistical grouping.
C23_Witness ==
    /\ StatisticalGrouping
    /\ outcome = "digest"
    /\ \E i, j \in GroupCalls :
          /\ i < j
          /\ ~oracle_log[i].raised /\ oracle_log[i].groups # <<>>
          /\ GroupCallFailed(j)

\* ------------------------------------------------------------ C26
BatchLimit(op) == IF op = "dedup" THEN DEDUP_BATCH_SIZE ELSE GROUP_BATCH_SIZE

CallsOf(op) == SelectSeq(oracle_log, LAMBDA e : e.op = op)

\* The calls of one method are the first slices of the list of primaries, in
\* order: call k starts at (k - 1) * limit and holds the limit's worth of
\* articles, or what is left of the list.
ConsecutiveSlices(op, n) ==
    LET calls == CallsOf(op)
    IN  \A k \in 1..Len(calls) :
            /\ calls[k].start = (k - 1) * BatchLimit(op)
            /\ calls[k].size = Min(BatchLimit(op), n - calls[k].start)
            /\ calls[k].size >= 1 /\ calls[k].size <= BatchLimit(op)

\* Every primary is in the slice of exactly one call.
CoveredOnce(op, n) ==
    \A i \in 1..n :
        Cardinality({ k \in 1..Len(CallsOf(op)) : i \in BatchClusters(CallsOf(op)[k]) }) = 1

\* The positions a dedup answer made duplicates of: start + i for every
\* index i after the first of a group.
MergedByAnswers ==
    UNION { UNION { { oracle_log[c].start + oracle_log[c].groups[g][k] :
                        k \in 2..Len(oracle_log[c].groups[g]) } :
                    g \in 1..Len(oracle_log[c].groups) } :
            c \in { d \in DedupCalls : ~oracle_log[d].raised } }

\* The grouping answers in call order, each with its batch's start.
RECURSIVE ResultsWithStart(_)
ResultsWithStart(k) ==
    IF k = 0 THEN <<>>
    ELSE ResultsWithStart(k - 1)
         \o (IF oracle_log[k].op = "group"
             THEN [ r \in 1..Len(oracle_log[k].groups) |->
                      [ start |-> oracle_log[k].start, result |-> oracle_log[k].groups[r] ] ]
             ELSE <<>>)

\* C26: the calls of each oracle method are logged one after the other and
\* are the consecutive slices of the Phase-1 primaries in ascending order,
\* of at most 50 articles for dedup and 20 for grouping; when the method's
\* loop has run to its end the slices cover every primary exactly once; an
\* index i of a batch's answer stands for the primary at start + i.
C26_BatchesInOrder ==
    /\ ConsecutiveSlices("dedup", Len(phase1))
    /\ ConsecutiveSlices("group", Len(dedup_groups))
    /\ (DedupReturned /\ semantic_enabled(tier, llm) /\ Len(phase1) > 1
          => /\ CoveredOnce("dedup", Len(phase1))
             /\ merged_indices = MergedByAnswers)
    /\ (GroupReturned /\ ~StatisticalGrouping
          => /\ CoveredOnce("group", Len(dedup_groups))
             /\ LET rs == ResultsWithStart(Len(oracle_log))
                    primaries == Primaries(dedup_groups)
                IN  /\ Len(topic_groups) = Len(rs)
                    /\ \A g \in 1..Len(rs) :
                          Ids(topic_groups[g].articles)
                          = [ m \in 1..Len(rs[g].result.article_indices) |->
                                primaries[rs[g].start
                                          + rs[g].result.article_indices[m] + 1].id ])

\* Three grouping batches were answered after two dedup batches, and a group
\* of the second grouping batch holds an article by its index in the batch.
C26_Witness ==
    /\ GroupReturned /\ ~StatisticalGrouping
    /\ Len(CallsOf("dedup")) = 2 /\ Len(CallsOf("group")) = 3
    /\ merged_indices # {}
    /\ \E g \in 1..Len(topic_groups) :
          /\ ResultsWithStart(Len(oracle_log))[g].start = GROUP_BATCH_SIZE
          /\ topic_groups[g].articles # <<>>

\* ------------------------------------------------------------ C27
\* What rank leaves of a group as the Grouper made it: the label, the
\* members as a set, their number, primary_index and the summaries.
GroupMark(tg) ==
    [ topic_label |-> tg.topic_label, ids |-> Range(Ids(tg.articles)),
      n |-> Len(tg.articles), primary_index |-> tg.primary_index,
      group_summary |-> tg.group_summary,
      article_summaries |-> tg.article_summaries ]

MarkCount(gs, mark) == Cardinality({ g \in 1..Len(gs) : GroupMark(gs[g]) = mark })

\* The article the Grouper designated as primary of a group.
Designated(tg) == At(tg.articles, tg.primary_index)

\* C27: the Ranker reorders the members of a group and leaves primary_index
\* as the Grouper set it, and the Digest flags the item at that position of
\* the reordered members; so a run is reachable whose flagged item is not
\* the article the Grouper designated.
C27_PrimaryIndexNotUpdated ==
    /\ Ranked =>
          \A g \in 1..Len(topic_groups) :
              MarkCount(ranked, GroupMark(topic_groups[g]))
              = MarkCount(topic_groups, GroupMark(topic_groups[g]))
    /\ outcome = "digest" =>
          \A p \in 1..Len(digest.groups) : \A m \in 1..Len(digest.groups[p].items) :
              digest.groups[p].items[m].is_primary
              => /\ m - 1 = ranked[p].primary_index
                 /\ digest.groups[p].items[m].article_id = ranked[p].articles[m].id

\* The oracle named the older article first and as primary; in the Digest
\* the flag is on the newer one.
C27_Witness ==
    /\ outcome = "digest"
    /\ \E p \in 1..Len(ranked) : \E g \in 1..Len(topic_groups) :
          /\ GroupMark(topic_groups[g]) = GroupMark(ranked[p])
          /\ MarkCount(topic_groups, GroupMark(topic_groups[g])) = 1
          /\ Len(topic_groups[g].articles) >= 2
          /\ \E m \in 1..Len(digest.groups[p].items) :
                /\ digest.groups[p].items[m].is_primary
                /\ digest.groups[p].items[m].article_id # Designated(topic_groups[g]).id

\* ------------------------------------------------------------ C28
\* The short summaries a grouping answer gives for the article with this
\* id: the values under the batch indices that stand for it.
OracleSummaries(rs, id) ==
    LET primaries == Primaries(dedup_groups)
        pairs == rs.result.article_summaries
    IN  { pairs[k][2] :
            k \in { j \in 1..Len(pairs) :
                      /\ rs.start + pairs[j][1] + 1 \in 1..Len(primaries)
                      /\ primaries[rs.start + pairs[j][1] + 1].id = id } }

\* The summary of every item is the oracle's for that article, or none when
\* the oracle gave none.
SummariesOf(dg, rs) ==
    \A m \in 1..Len(dg.items) :
        LET given == OracleSummaries(rs, dg.items[m].article_id)
        IN  IF given = {} THEN dg.items[m].ai_summary = NoSummary
            ELSE dg.items[m].ai_summary \in given

\* C28: in a Digest built from the assisted grouping every group comes from
\* one of the oracle's groups, with the same label and articles, and each
\* of its items carries the short summary the oracle returned for that
\* item's article.
C28_ItemSummaryOfSameArticle ==
    (outcome = "digest" /\ ~StatisticalGrouping) =>
        \A p \in 1..Len(digest.groups) :
            \E g \in 1..Len(ResultsWithStart(Len(oracle_log))) :
                LET rs == ResultsWithStart(Len(oracle_log))[g]
                IN  /\ GroupMark(topic_groups[g]).ids
                       = Range(DigestItemIds(digest.groups)[p])
                    /\ topic_groups[g].topic_label = digest.groups[p].topic_label
                    /\ SummariesOf(digest.groups[p], rs)

\* ------------------------------------------------------------ C25
\* The articles of the active sources of user u.
OwnArticles(u) ==
    { a \in Range(db.articles) :
        \E x \in db.sources : x.id = a.source_id /\ x.user_id = u /\ x.is_active }

\* What collect returns to a task of user u that runs alone: the user's
\* articles after the user's digests that were there when the task started.
AloneCollect(u) ==
    { a \in OwnArticles(u) :
        \A k \in 1..Len(db.digests) :
            (db.digests[k].user_id = u /\ db.digests[k].generated_at < db.now)
            => EffectiveTimestamp(a) > db.digests[k].generated_at }

\* The Digest a task builds from these articles when it runs alone, given
\* what the oracle answers to its calls.
AloneDigest(u, arts, t, l, ds, gs) ==
    LET dgs == DedupStage_dedup(arts, t, l, ds).groups
        tgs == GroupStage_group(dgs, t, l, gs).groups
    IN  build_digest(rank(tgs, t, user_interactions(db, u)), u, t, db.now)

OwnRunState ==
    << tier, llm, collecting, dedup_oracle, group_oracle, pc, stages, articles, groups,
       merged_indices, start, attempts, phase1, dedup_groups, all_groups,
       topic_groups, ranked, digest, outcome, oracle_log >>

\* C25: when the tasks of two users interleave at their await points, each
\* collects what it would collect alone, the user's task without an oracle
\* and the other user's task with the answers of its own oracle calls build
\* the Digest they would build alone, every Digest holds only articles of
\* its user's active sources, and no step of one task changes anything the
\* other task holds.
C25_RunsOfUsersIndependent ==
    /\ []( /\ (Collected => Range(articles) = AloneCollect(RunUser))
           /\ (other_task.pc \notin CollectPcs
                 => Range(other_task.articles) = AloneCollect(OtherUser))
           /\ (outcome = "digest"
                 => /\ DigestArticleIds(digest) \subseteq { a.id : a \in OwnArticles(RunUser) }
                    /\ (llm = "none"
                          => digest = AloneDigest(RunUser, articles, tier, llm,
                                                  <<>>, <<>>)))
           /\ (other_task.outcome = "digest"
                 => /\ DigestArticleIds(other_task.digest)
                       \subseteq { a.id : a \in OwnArticles(OtherUser) }
                    /\ other_task.digest
                       = AloneDigest(OtherUser, other_task.articles, other_task.tier,
                                     other_task.llm, other_task.dedup_oracle,
                                     other_task.group_oracle)) )
    /\ [][ /\ (other_task' # other_task => OwnRunState' = OwnRunState)
           /\ (OwnRunState' # OwnRunState => other_task' = other_task) ]_vars

\* Both tasks committed a Digest, the user's after calls of its oracle and
\* the other user's, after an earlier digest of theirs, with the grouping
\* of its own oracle, over a table that holds articles of both.
C25_Witness ==
    /\ pc = "closed" /\ other_task.pc = "closed"
    /\ outcome = "digest" /\ other_task.outcome = "digest"
    /\ Len(db.digests) = 3
    /\ GroupCalls # {}
    /\ other_task.llm = "service"
    /\ other_task.digest.groups[1].summary # NoSummary
    /\ OwnArticles(RunUser) # {} /\ OwnArticles(OtherUser) # {}
    /\ AloneCollect(OtherUser) # OwnArticles(OtherUser)

\* ------------------------------------------------------------ C30
SuccessfulRefreshes(token) ==
    { r \in 1..Len(requests) :
        requests[r].kind = "refresh" /\ requests[r].token = token
        /\ requests[r].response = "ok" }

Unrevoked == { k \in 1..Len(refresh_tokens) : ~refresh_tokens[k].revoked }

\* The logins and registrations so far, each of which issued a token.
Logins == { r \in 1..Len(requests) : requests[r].kind \in { "login", "register" } }

\* C30: whatever way the requests interleave, no refresh token has two
\* successful refreshes, and as each refresh replaces one unrevoked token
\* by one new one, there are never more unrevoked tokens than the first
\* one and one for each login or registration since.
C30_RefreshTokenSingleUse ==
    /\ \A k \in 1..Len(refresh_tokens) :
          Cardinality(SuccessfulRefreshes(refresh_tokens[k].token)) <= 1
    /\ Cardinality(Unrevoked) <= 1 + Cardinality(Logins)

====
